---- MODULE Spec2Model ----
(***************************************************************************)
(* A model of the beer-game supply-chain simulation: the transit-delay     *)
(* queue (model/queues.rs), the supply-chain agent (model/agent.rs), the    *)
(* order policies (strategy/implementations.rs) and the lock-step turn     *)
(* loop of ChainSimulation (simulation/engine.rs).                          *)
(*                                                                         *)
(* All quantities are u32 in the source.  They are modelled as integers;   *)
(* within the bounds of a simulation below no sum comes near the top of    *)
(* the range, and a subtraction that the source guards is guarded here in  *)
(* the same way, so that a negative value in the model would be an         *)
(* underflow in the source.  The policies cast their inputs to i32: the    *)
(* casts and the i32 arithmetic keep their width, scaled from 32 bits to   *)
(* IntBits bits.                                                            *)
(***************************************************************************)
EXTENDS Integers, Sequences, FiniteSets, TLC

\* ------------------------------------------------------------------ bounds
\* Longest horizon (config.max_weeks) the simulation is run for.
MaxWeeks == 3
\* Largest order_delay / shipment_delay a simulation is configured with.
MaxDelay == 2
\* Largest weekly customer demand, initial inventory and random order.
MaxQty == 1
\* Longest demand schedule handed to the simulation.
MaxSchedule == 2
\* A TimeDelayQueue on its own: largest delay, number of turns, largest item.
MaxQueueDelay == 3
MaxTurns == 5
MaxItem == 1
\* Runs under a constant demand: the horizon, the largest demand, and by how
\* much the base-stock target exceeds demand * (order_delay + shipment_delay
\* + 1) and the initial inventory falls short of the target.
EqWeeks == 36
EqDemand == 2
EqSlack == 1
\* Largest holding and backlog cost rate of a configuration, in units of $0.50.
MaxRate == 2
\* A policy called on its own: the largest of the small arguments (the
\* large ones are at the edges of i32 and u32).
MaxInput == 2
\* The width of u32 and i32, scaled: u32 is 0 .. 2^IntBits - 1 and i32 is
\* -2^(IntBits-1) .. 2^(IntBits-1) - 1.
IntBits == 16

\* ------------------------------------------------------------- the state
VARIABLES
    config,            \* SimulationConfig
    agents,            \* ChainSimulation.agents (each with its bound policy)
    order_queues,      \* ChainSimulation.order_queues      (3 TimeDelayQueue)
    shipment_queues,   \* ChainSimulation.shipment_queues   (3 TimeDelayQueue)
    production_delay,  \* ChainSimulation.production_delay  (1 TimeDelayQueue)
    demand_schedule,   \* ChainSimulation.demand_schedule
    current_week,      \* ChainSimulation.current_week
    history,           \* ChainSimulation.history
    pc,                \* position of the control flow inside run()/step()
    locals,            \* the local variables of step() that are live
    week_start,        \* the agents as they were when the current step began
    bench              \* a TimeDelayQueue driven on its own, with what went in and out

simvars == <<config, agents, order_queues, shipment_queues, production_delay,
             demand_schedule, current_week, history, pc, locals, week_start>>

vars == <<simvars, bench>>

\* --------------------------------------------------------------- helpers
Max(a, b) == IF a >= b THEN a ELSE b
Min(a, b) == IF a <= b THEN a ELSE b

RECURSIVE SeqsUpTo(_, _)
\* All sequences over S of length at most n.
SeqsUpTo(S, n) ==
    IF n = 0 THEN {<<>>}
    ELSE LET shorter == SeqsUpTo(S, n - 1)
         IN  shorter \cup {Append(s, x) : s \in {t \in shorter : Len(t) = n - 1}, x \in S}

Zeros(n) == [k \in 1..n |-> 0]

\* The integer types of the source, at the scaled width.
u32_MAX == 2^IntBits - 1
i32_MAX == 2^(IntBits - 1) - 1
i32_MIN == 0 - 2^(IntBits - 1)

\* `x as i32` for a u32 x, and the result of a wrapping i32 operation whose
\* exact result is x: the value congruent to x in i32_MIN .. i32_MAX.
as_i32(x) == ((x - i32_MIN) % 2^IntBits) + i32_MIN

\* An i32 operation with exact result x overflows (a panic where overflow
\* checks are compiled in, a wrapped result where they are not).
i32_overflows(x) == x < i32_MIN \/ x > i32_MAX

\* ------------------------------------------------------- model/agent.rs
\* enum AgentRole, in declaration order; agents[i] has role AgentRole[i].
AgentRole == <<"Retailer", "Wholesaler", "Distributor", "Manufacturer">>

Retailer == 1
Wholesaler == 2
Distributor == 3
Manufacturer == 4

\* The constructor as it would be without the pre-fill.
TimeDelayQueue_unfilled(delay) ==
    [buffer |-> <<>>, delay_length |-> delay]

\* ----------------------------------------------------- model/queues.rs
\* TimeDelayQueue::new(delay): a buffer pre-filled with `delay` zeros.
TimeDelayQueue_new(delay) ==
    [buffer |-> Zeros(delay), delay_length |-> delay]

\* pop_arrival: buffer.pop_front().unwrap_or(0) -- the value returned ...
pop_arrival_value(q) ==
    IF q.buffer = <<>> THEN 0 ELSE Head(q.buffer)

\* ... and the queue it leaves behind (an empty buffer stays empty).
pop_arrival(q) ==
    IF q.buffer = <<>> THEN q ELSE [q EXCEPT !.buffer = Tail(@)]

\* push_departure: buffer.push_back(item).
push_departure(q, item) ==
    [q EXCEPT !.buffer = Append(@, item)]

\* len
len(q) == Len(q.buffer)

\* SupplyChainAgent::new
SupplyChainAgent_new(role, initial_inventory, policy) ==
    [role |-> role,
     inventory |-> initial_inventory,
     backlog |-> 0,
     supply_line |-> 0,
     last_order_received |-> 0,
     last_shipment_received |-> 0,
     last_order_placed |-> 0,
     last_shipment_sent |-> 0,
     policy |-> policy]
\* receive_shipment as it would be if the arriving goods also cleared the
\* backlog.
receive_shipment_clears_backlog(a, quantity) ==
    [a EXCEPT !.inventory = @ + quantity,
              !.last_shipment_received = quantity,
              !.supply_line = IF @ >= quantity THEN @ - quantity ELSE 0,
              !.backlog = 0]

\* receive_shipment(&mut self, quantity)
receive_shipment(a, quantity) ==
    [a EXCEPT !.inventory = @ + quantity,
              !.last_shipment_received = quantity,
              !.supply_line = IF @ >= quantity THEN @ - quantity ELSE 0]
\* process_order as it would be if the short branch reported the whole
\* demand as shipped.
process_order_ships_demand(a, incoming_order) ==
    LET total_demand == incoming_order + a.backlog
    IN  IF a.inventory >= total_demand
        THEN [a EXCEPT !.last_order_received = incoming_order,
                       !.inventory = @ - total_demand,
                       !.backlog = 0,
                       !.last_shipment_sent = total_demand]
        ELSE [a EXCEPT !.last_order_received = incoming_order,
                       !.backlog = total_demand - a.inventory,
                       !.inventory = 0,
                       !.last_shipment_sent = total_demand]

\* process_order as it would be if the short branch shipped nothing and
\* kept the stock.
process_order_all_or_nothing(a, incoming_order) ==
    LET total_demand == incoming_order + a.backlog
    IN  IF a.inventory >= total_demand
        THEN [a EXCEPT !.last_order_received = incoming_order,
                       !.inventory = @ - total_demand,
                       !.backlog = 0,
                       !.last_shipment_sent = total_demand]
        ELSE [a EXCEPT !.last_order_received = incoming_order,
                       !.backlog = total_demand,
                       !.last_shipment_sent = 0]

\* process_order as it would be if the short branch carried the whole demand
\* over as backlog, forgetting what was shipped.
process_order_keeps_demand(a, incoming_order) ==
    LET total_demand == incoming_order + a.backlog
    IN  IF a.inventory >= total_demand
        THEN [a EXCEPT !.last_order_received = incoming_order,
                       !.inventory = @ - total_demand,
                       !.backlog = 0,
                       !.last_shipment_sent = total_demand]
        ELSE [a EXCEPT !.last_order_received = incoming_order,
                       !.backlog = total_demand,
                       !.inventory = 0,
                       !.last_shipment_sent = a.inventory]

\* process_order(&mut self, incoming_order); the value returned is the
\* last_shipment_sent of the agent it leaves.
process_order(a, incoming_order) ==
    LET total_demand == incoming_order + a.backlog
    IN  IF a.inventory >= total_demand
        THEN [a EXCEPT !.last_order_received = incoming_order,
                       !.inventory = @ - total_demand,
                       !.backlog = 0,
                       !.last_shipment_sent = total_demand]
        ELSE [a EXCEPT !.last_order_received = incoming_order,
                       !.backlog = total_demand - a.inventory,
                       !.inventory = 0,
                       !.last_shipment_sent = a.inventory]

\* current_cost: inventory * 0.5 + backlog * 1.0, here in units of $0.50
\* (both rates and every small integer are exact in f32).
current_cost(a) == a.inventory * 1 + a.backlog * 2

\* ------------------------------------------- strategy/implementations.rs
\* A policy is a record; the fields a variant does not have are 0.
NaivePolicy == [kind |-> "Naive", min |-> 0, max |-> 0, target_stock |-> 0]

RandomPolicy(min, max) ==
    [kind |-> "Random", min |-> min, max |-> max, target_stock |-> 0]

\* BaseStockPolicy::new: target_stock as i32
BaseStockPolicy(target_stock) ==
    [kind |-> "BaseStock", min |-> 0, max |-> 0, target_stock |-> as_i32(target_stock)]

\* VMIPolicy::new: both targets are target_stock as i32
VMIPolicy(target_stock) ==
    [kind |-> "VMI",
     target_stock_downstream |-> as_i32(target_stock),
     target_stock_own |-> as_i32(target_stock)]

\* strategy/traits.rs, OrderContext: its fields are Option<u32>.  None is
\* the empty sequence, Some(v) the sequence of v alone.
None == <<>>
Some(v) == <<v>>

\* OrderContext::default(): every field absent.
OrderContext_default ==
    [downstream_inventory |-> None,
     downstream_backlog |-> None,
     actual_customer_demand |-> None]

\* NaivePolicy::calculate_order as it would be if it ordered nothing.
Naive_orders_nothing(inventory, backlog, incoming_demand, supply_line, context) == 0

\* NaivePolicy::calculate_order as it would be if it also ordered what it
\* still owes downstream.
Naive_covers_backlog(inventory, backlog, incoming_demand, supply_line, context) ==
    incoming_demand + backlog

\* NaivePolicy::calculate_order: every argument but incoming_demand is unused.
Naive_calculate_order(inventory, backlog, incoming_demand, supply_line, context) ==
    incoming_demand

\* RandomPolicy::calculate_order: rng.gen_range(min..=max), any value of the
\* range (an empty range, min > max, yields no value: gen_range panics).
Random_calculate_order(p) == p.min .. p.max

\* BaseStockPolicy::calculate_order as the textbook order-up-to rule, which
\* orders the gap alone.
BaseStock_gap_only(p, inventory, backlog, incoming_demand, supply_line) ==
    LET gap == p.target_stock - (inventory - backlog + supply_line)
    IN  IF gap < 0 THEN 0 ELSE gap

\* BaseStockPolicy::calculate_order as it would be without the clamp at 0.
BaseStock_unclamped(p, inventory, backlog, incoming_demand, supply_line) ==
    incoming_demand + (p.target_stock - (inventory - backlog + supply_line))

\* BaseStockPolicy::calculate_order: the inputs are cast to i32, the
\* arithmetic is i32 arithmetic (here with the wrapped results).
BaseStock_calculate_order(p, inventory, backlog, incoming_demand, supply_line) ==
    LET inv == as_i32(inventory)
        bl == as_i32(backlog)
        demand == as_i32(incoming_demand)
        supply == as_i32(supply_line)
        net_inventory == as_i32(as_i32(inv - bl) + supply)
        gap == as_i32(p.target_stock - net_inventory)
        raw_order == as_i32(demand + gap)
    IN  IF raw_order < 0 THEN 0 ELSE raw_order

\* Some i32 operation of BaseStockPolicy::calculate_order overflows.
BaseStock_overflows(p, inventory, backlog, incoming_demand, supply_line) ==
    LET inv == as_i32(inventory)
        bl == as_i32(backlog)
        demand == as_i32(incoming_demand)
        supply == as_i32(supply_line)
        net_inventory == as_i32(as_i32(inv - bl) + supply)
        gap == as_i32(p.target_stock - net_inventory)
    IN  \/ i32_overflows(inv - bl)
        \/ i32_overflows(as_i32(inv - bl) + supply)
        \/ i32_overflows(p.target_stock - net_inventory)
        \/ i32_overflows(demand + gap)

\* VMIPolicy::calculate_order: with both downstream fields present, the
\* downstream gap plus the own gap; otherwise the own gap alone.
VMI_calculate_order(p, inventory, backlog, incoming_demand, supply_line, context) ==
    IF context.downstream_inventory # None /\ context.downstream_backlog # None
    THEN LET down_net == as_i32(as_i32(context.downstream_inventory[1])
                                - as_i32(context.downstream_backlog[1]))
             downstream_gap == as_i32(p.target_stock_downstream - down_net)
             own_net == as_i32(as_i32(as_i32(inventory) - as_i32(backlog))
                               + as_i32(supply_line))
             own_gap == as_i32(p.target_stock_own - own_net)
             total_order == as_i32(downstream_gap + own_gap)
         IN  IF total_order < 0 THEN 0 ELSE total_order
    ELSE LET inv == as_i32(inventory)
             bl == as_i32(backlog)
             supply == as_i32(supply_line)
             net_inventory == as_i32(as_i32(inv - bl) + supply)
             gap == as_i32(p.target_stock_own - net_inventory)
         IN  IF gap < 0 THEN 0 ELSE gap

\* Some i32 operation of VMIPolicy::calculate_order overflows.
VMI_overflows(p, inventory, backlog, incoming_demand, supply_line, context) ==
    LET inv == as_i32(inventory)
        bl == as_i32(backlog)
        supply == as_i32(supply_line)
        own_net == as_i32(as_i32(inv - bl) + supply)
        own_overflows ==
            \/ i32_overflows(inv - bl)
            \/ i32_overflows(as_i32(inv - bl) + supply)
            \/ i32_overflows(p.target_stock_own - own_net)
    IN  IF context.downstream_inventory # None /\ context.downstream_backlog # None
        THEN LET down_inv == as_i32(context.downstream_inventory[1])
                 down_back == as_i32(context.downstream_backlog[1])
                 down_net == as_i32(down_inv - down_back)
                 downstream_gap == as_i32(p.target_stock_downstream - down_net)
                 own_gap == as_i32(p.target_stock_own - own_net)
             IN  \/ i32_overflows(down_inv - down_back)
                 \/ i32_overflows(p.target_stock_downstream - down_net)
                 \/ own_overflows
                 \/ i32_overflows(downstream_gap + own_gap)
        ELSE own_overflows
\* ---- f32, as StermanHeuristic uses it ----
\* An f32 keeps a mantissa of 24 bits, 8 fewer than the integers converted
\* to it; the model keeps the same distance from its integer width.  An f32
\* value is the integer n standing for n / 2^FloatGrid, fine enough for the
\* literal 0.2 and for every product and sum of calculate_order.
FloatBits == IntBits - 8

FloatGrid == FloatBits + 2

f32_one == 2 ^ FloatGrid

RECURSIVE f32_shift(_)
\* The number of low bits of n >= 0 that do not fit the mantissa.
f32_shift(n) == IF n < 2 ^ FloatBits THEN 0 ELSE 1 + f32_shift(n \div 2)

\* The f32 nearest to a non-negative value, ties to the even mantissa.
f32_nearest(n) ==
    LET s == f32_shift(n)
        q == n \div (2 ^ s)
        r == n % (2 ^ s)
    IN  IF s = 0 THEN n
        ELSE IF 2 * r > 2 ^ s \/ (2 * r = 2 ^ s /\ q % 2 = 1)
             THEN (q + 1) * (2 ^ s)
             ELSE q * (2 ^ s)

\* The f32 nearest to a value of either sign.
f32_round(n) == IF n >= 0 THEN f32_nearest(n) ELSE 0 - f32_nearest(0 - n)

\* `x as f32` of an i32.
f32_from_i32(x) == f32_round(x * f32_one)

\* The literal 1.0.
f32_1_0 == f32_one

\* The literal 0.2: the nearest mantissa to 0.2, which is not 1/5.
f32_0_2 == (2 * f32_one + 5) \div 10

\* `x as f32` of a u32.
f32_from_u32(x) == f32_round(x * f32_one)

\* The literal 0.5, a smoothing factor that f32 holds exactly.
f32_0_5 == f32_one \div 2

\* a * b.  One factor is a converted integer in every product but the
\* forecast's, whose factors are small; a product finer than the grid is
\* cut to it.
f32_mul(a, b) ==
    f32_round(IF b % f32_one = 0 THEN a * (b \div f32_one)
              ELSE IF a % f32_one = 0 THEN (a \div f32_one) * b
              ELSE (a * b) \div f32_one)

\* a - b
f32_sub(a, b) == f32_round(a - b)

\* a + b
f32_add(a, b) == f32_round(a + b)

\* `order.round() as u32` of an order >= 0.0: the nearest integer, halves
\* away from zero, saturating at u32::MAX.
f32_round_as_u32(n) == Min(u32_MAX, (2 * n + f32_one) \div (2 * f32_one))

\* StermanHeuristic::new(target_inv)
StermanHeuristic(target_inv) ==
    [kind |-> "Sterman",
     target_inventory |-> as_i32(target_inv),
     target_supply_line |-> as_i32(target_inv \div 2),
     alpha |-> f32_1_0,
     beta |-> f32_0_2]

\* StermanHeuristic::calculate_order
Sterman_calculate_order(p, inventory, backlog, demand, supply_line) ==
    LET net_inv == as_i32(as_i32(inventory) - as_i32(backlog))
        sl == as_i32(supply_line)
        expected_demand == as_i32(demand)
        inventory_gap == f32_from_i32(as_i32(p.target_inventory - net_inv))
        supply_line_gap == f32_from_i32(as_i32(p.target_supply_line - sl))
        order == f32_add(f32_add(f32_from_i32(expected_demand),
                                 f32_mul(p.alpha, inventory_gap)),
                         f32_mul(p.beta, supply_line_gap))
    IN  IF order < 0 THEN 0 ELSE f32_round_as_u32(order)

\* SmoothingPolicy::new(initial_demand, gamma, target)
SmoothingPolicy(initial_demand, gamma, target) ==
    [kind |-> "Smoothing",
     avg_demand |-> initial_demand,
     gamma |-> gamma,
     target_stock |-> as_i32(target)]

\* SmoothingPolicy::calculate_order, its first statement: the forecast
\* gamma * demand + (1 - gamma) * avg_demand, which the policy keeps.
Smoothing_avg_demand(p, demand) ==
    f32_add(f32_mul(p.gamma, f32_from_u32(demand)),
            f32_mul(f32_sub(f32_1_0, p.gamma), p.avg_demand))

\* SmoothingPolicy::calculate_order, the order it returns.
Smoothing_calculate_order(p, inventory, backlog, demand, supply_line) ==
    LET avg_demand == Smoothing_avg_demand(p, demand)
        net_inv == as_i32(as_i32(inventory) - as_i32(backlog))
        position == as_i32(net_inv + as_i32(supply_line))
        inventory_correction ==
            f32_mul(f32_from_i32(as_i32(p.target_stock - position)), p.gamma)
        order == f32_add(avg_demand, inventory_correction)
    IN  IF order < 0 THEN 0 ELSE f32_round_as_u32(order)

\* Some i32 operation of SmoothingPolicy::calculate_order overflows.
Smoothing_overflows(p, inventory, backlog, demand, supply_line) ==
    LET net_inv == as_i32(as_i32(inventory) - as_i32(backlog))
        position == as_i32(net_inv + as_i32(supply_line))
    IN  \/ i32_overflows(as_i32(inventory) - as_i32(backlog))
        \/ i32_overflows(net_inv + as_i32(supply_line))
        \/ i32_overflows(p.target_stock - position)

\* Some i32 operation of StermanHeuristic::calculate_order overflows.
Sterman_overflows(p, inventory, backlog, demand, supply_line) ==
    LET net_inv == as_i32(as_i32(inventory) - as_i32(backlog))
        sl == as_i32(supply_line)
    IN  \/ i32_overflows(as_i32(inventory) - as_i32(backlog))
        \/ i32_overflows(p.target_inventory - net_inv)
        \/ i32_overflows(p.target_supply_line - sl)

\* OrderPolicy::calculate_order, dispatched on the variant: the set of the
\* orders the call can return (one value, except for the Random policy).
calculate_order(p, inventory, backlog, incoming_demand, supply_line, context) ==
    CASE p.kind = "Naive" ->
            {Naive_calculate_order(inventory, backlog, incoming_demand, supply_line, context)}
      [] p.kind = "Random" -> Random_calculate_order(p)
      [] p.kind = "BaseStock" ->
            {BaseStock_calculate_order(p, inventory, backlog, incoming_demand, supply_line)}
      [] p.kind = "VMI" ->
            {VMI_calculate_order(p, inventory, backlog, incoming_demand, supply_line, context)}
      [] p.kind = "Sterman" ->
            {Sterman_calculate_order(p, inventory, backlog, incoming_demand, supply_line)}
      [] p.kind = "Smoothing" ->
            {Smoothing_calculate_order(p, inventory, backlog, incoming_demand, supply_line)}

\* calculate_order(&mut self, ..): the policy the call leaves behind.  Only
\* the Smoothing policy writes to itself, its forecast.
calculate_order_self(p, inventory, backlog, incoming_demand, supply_line, context) ==
    IF p.kind = "Smoothing"
    THEN [p EXCEPT !.avg_demand = Smoothing_avg_demand(p, incoming_demand)]
    ELSE p

\* The call can panic instead of returning: gen_range on an empty range, or
\* an i32 overflow where overflow checks are compiled in.
calculate_order_panics(p, inventory, backlog, incoming_demand, supply_line, context) ==
    CASE p.kind = "Naive" -> FALSE
      [] p.kind = "Random" -> p.min > p.max
      [] p.kind = "BaseStock" ->
            BaseStock_overflows(p, inventory, backlog, incoming_demand, supply_line)
      [] p.kind = "VMI" ->
            VMI_overflows(p, inventory, backlog, incoming_demand, supply_line, context)
      [] p.kind = "Sterman" ->
            Sterman_overflows(p, inventory, backlog, incoming_demand, supply_line)
      [] p.kind = "Smoothing" ->
            Smoothing_overflows(p, inventory, backlog, incoming_demand, supply_line)

\* The policy call as it would be if supply_line were increased by the
\* previous order once more before the policy is asked.
policy_call_after_update(a) ==
    [inventory |-> a.inventory,
     backlog |-> a.backlog,
     incoming_demand |-> a.last_order_received,
     supply_line |-> a.supply_line + a.last_order_placed]

\* The arguments make_decision hands to the policy.
policy_call(a) ==
    [inventory |-> a.inventory,
     backlog |-> a.backlog,
     incoming_demand |-> a.last_order_received,
     supply_line |-> a.supply_line]

\* The orders the policy bound to agent a can return when make_decision calls it.
\* (The engine hands the policy no visibility: the context is the default.)
decision(a) ==
    calculate_order(a.policy, policy_call(a).inventory, policy_call(a).backlog,
                    policy_call(a).incoming_demand, policy_call(a).supply_line,
                    OrderContext_default)

\* The policy of agent a after make_decision has called it.
decision_policy(a) ==
    calculate_order_self(a.policy, policy_call(a).inventory, policy_call(a).backlog,
                         policy_call(a).incoming_demand, policy_call(a).supply_line,
                         OrderContext_default)

\* make_decision as it would be if the order were not added to the supply
\* line.
make_decision_untracked(a, order_qty) ==
    [a EXCEPT !.last_order_placed = order_qty,
              !.policy = decision_policy(a)]

\* make_decision(&mut self), for the order_qty the policy returned; the
\* policy keeps what the call wrote to it.
make_decision(a, order_qty) ==
    [a EXCEPT !.supply_line = @ + order_qty,
              !.last_order_placed = order_qty,
              !.policy = decision_policy(a)]

\* The record as it would be with the two order fields exchanged.
HistoryRecord_orders_exchanged(week, a) ==
    [week |-> week,
     role |-> a.role,
     inventory |-> a.inventory,
     backlog |-> a.backlog,
     order_placed |-> a.last_order_received,
     incoming_demand |-> a.last_order_placed,
     shipment_sent |-> a.last_shipment_sent,
     shipment_received |-> a.last_shipment_received,
     cost |-> current_cost(a)]

\* -------------------------------------------------- simulation/engine.rs
\* A record as it would be if the week were advanced before recording.
HistoryRecord_after_advance(week, a) ==
    [week |-> week + 1,
     role |-> a.role,
     inventory |-> a.inventory,
     backlog |-> a.backlog,
     order_placed |-> a.last_order_placed,
     incoming_demand |-> a.last_order_received,
     shipment_sent |-> a.last_shipment_sent,
     shipment_received |-> a.last_shipment_received,
     cost |-> current_cost(a)]

\* HistoryRecord, as record_history builds it for one agent.
HistoryRecord(week, a) ==
    [week |-> week,
     role |-> a.role,
     inventory |-> a.inventory,
     backlog |-> a.backlog,
     order_placed |-> a.last_order_placed,
     incoming_demand |-> a.last_order_received,
     shipment_sent |-> a.last_shipment_sent,
     shipment_received |-> a.last_shipment_received,
     cost |-> current_cost(a)]

\* The state ChainSimulation::new builds from a config, a demand schedule
\* and four strategies.
ChainSimulation_new(cfg, schedule, strategies) ==
    [agents |-> [i \in 1..4 |->
                    SupplyChainAgent_new(AgentRole[i], cfg.initial_inventory, strategies[i])],
     order_queues |-> [k \in 1..3 |-> TimeDelayQueue_new(cfg.order_delay)],
     shipment_queues |-> [k \in 1..3 |-> TimeDelayQueue_new(cfg.shipment_delay)],
     production_delay |-> TimeDelayQueue_new(cfg.shipment_delay),
     current_week |-> 1,
     history |-> <<>>]

\* The lookup as it would be with the index one too far: get(week).
customer_demand_off_by_one(schedule, week) ==
    IF week + 1 <= Len(schedule) THEN schedule[week + 1] ELSE 0

\* demand_schedule.get(week - 1).unwrap_or(&0): the source indexes from 0,
\* a TLA+ sequence from 1, so entry week - 1 of the Vec is schedule[week].
customer_demand(schedule, week) ==
    IF week >= 1 /\ week <= Len(schedule) THEN schedule[week] ELSE 0

\* The locals of step() before its first statement has run.
NoLocals ==
    [week |-> 0,
     incoming_order |-> <<0, 0, 0, 0>>,
     arrival |-> <<0, 0, 0, 0>>,
     shipped |-> <<0, 0, 0, 0>>,
     call |-> [i \in 1..4 |-> [inventory |-> 0, backlog |-> 0,
                               incoming_demand |-> 0, supply_line |-> 0]],
     order |-> <<0, 0, 0, 0>>]

\* The configurations, demand schedules and strategy line-ups a simulation
\* is constructed with.
\* SimulationConfig::default(); the two cost rates are in units of $0.50.
SimulationConfig_default ==
    [max_weeks |-> 25,
     order_delay |-> 2,
     shipment_delay |-> 2,
     initial_inventory |-> 15,
     holding_cost |-> 1,
     backlog_cost |-> 2]

Configs ==
    [max_weeks : 0..MaxWeeks,
     order_delay : 0..MaxDelay,
     shipment_delay : 0..MaxDelay,
     initial_inventory : 0..MaxQty,
     holding_cost : {SimulationConfig_default.holding_cost},
     backlog_cost : {SimulationConfig_default.backlog_cost}]

Schedules == SeqsUpTo(0..MaxQty, MaxSchedule)

\* The three line-ups of main(): all rational, one rational, mixed.
Strategies ==
    { <<BaseStockPolicy(MaxQty), BaseStockPolicy(MaxQty),
        BaseStockPolicy(MaxQty), BaseStockPolicy(MaxQty)>>,
      <<BaseStockPolicy(MaxQty), NaivePolicy, NaivePolicy, NaivePolicy>>,
      <<NaivePolicy, BaseStockPolicy(MaxQty + 1),
        RandomPolicy(0, 1), BaseStockPolicy(MaxQty)>> }

InitWith(cfg, schedule, strategies) ==
    LET sim == ChainSimulation_new(cfg, schedule, strategies)
    IN  /\ config = cfg
        /\ demand_schedule = schedule
        /\ agents = sim.agents
        /\ order_queues = sim.order_queues
        /\ shipment_queues = sim.shipment_queues
        /\ production_delay = sim.production_delay
        /\ current_week = sim.current_week
        /\ history = sim.history
        /\ pc = "run"
        /\ locals = NoLocals
        /\ week_start = sim.agents

\* No queue is being driven on its own.
NoBench == [q |-> TimeDelayQueue_new(0), pushed |-> <<>>, popped |-> <<>>, at |-> "off"]

Init ==
    /\ \E cfg \in Configs, schedule \in Schedules, strategies \in Strategies :
          InitWith(cfg, schedule, strategies)
    /\ bench = NoBench

\* The loop as it would be with `<` for `<=`.
run_exclusive ==
    /\ pc = "run"
    /\ pc' = IF current_week < config.max_weeks THEN "arrivals" ELSE "done"
    /\ UNCHANGED <<bench, config, agents, order_queues, shipment_queues, production_delay,
                   demand_schedule, current_week, history, locals, week_start>>

\* run(): the loop condition, `while self.current_week <= self.config.max_weeks`.
run ==
    /\ pc = "run"
    /\ pc' = IF current_week <= config.max_weeks THEN "arrivals" ELSE "done"
    /\ UNCHANGED <<bench, config, agents, order_queues, shipment_queues, production_delay,
                   demand_schedule, current_week, history, locals, week_start>>

\* step(), phase 1: `let week`, the customer demand and the seven pops.
step_arrivals ==
    /\ pc = "arrivals"
    /\ locals' = [NoLocals EXCEPT
            !.week = current_week,
            !.incoming_order = <<customer_demand(demand_schedule, current_week),
                                 pop_arrival_value(order_queues[1]),
                                 pop_arrival_value(order_queues[2]),
                                 pop_arrival_value(order_queues[3])>>,
            !.arrival = <<pop_arrival_value(shipment_queues[1]),
                          pop_arrival_value(shipment_queues[2]),
                          pop_arrival_value(shipment_queues[3]),
                          pop_arrival_value(production_delay)>>]
    /\ order_queues' = [k \in 1..3 |-> pop_arrival(order_queues[k])]
    /\ shipment_queues' = [k \in 1..3 |-> pop_arrival(shipment_queues[k])]
    /\ production_delay' = pop_arrival(production_delay)
    /\ week_start' = agents
    /\ pc' = "receive"
    /\ UNCHANGED <<bench, config, agents, demand_schedule, current_week, history>>

\* step(), phase 2.1: every agent receives its arrival.
step_receive ==
    /\ pc = "receive"
    /\ agents' = [i \in 1..4 |-> receive_shipment(agents[i], locals.arrival[i])]
    /\ pc' = "fulfill"
    /\ UNCHANGED <<bench, config, order_queues, shipment_queues, production_delay,
                   demand_schedule, current_week, history, locals, week_start>>

\* step(), phase 2.2: every agent processes its incoming order.
step_fulfill ==
    /\ pc = "fulfill"
    /\ agents' = [i \in 1..4 |-> process_order(agents[i], locals.incoming_order[i])]
    /\ locals' = [locals EXCEPT !.shipped = [i \in 1..4 |-> agents'[i].last_shipment_sent]]
    /\ pc' = "decide"
    /\ UNCHANGED <<bench, config, order_queues, shipment_queues, production_delay,
                   demand_schedule, current_week, history, week_start>>

\* step(), phase 2.3: every agent asks its policy for an order
\* (make_decision: the policy is called on the agent's fields as they are,
\* then supply_line and last_order_placed are updated).
step_decide ==
    /\ pc = "decide"
    /\ \E r_order \in decision(agents[Retailer]), w_order \in decision(agents[Wholesaler]),
          d_order \in decision(agents[Distributor]), m_order \in decision(agents[Manufacturer]) :
          LET order == <<r_order, w_order, d_order, m_order>>
          IN  /\ agents' = [i \in 1..4 |-> make_decision(agents[i], order[i])]
              /\ locals' = [locals EXCEPT !.order = order,
                                          !.call = [i \in 1..4 |-> policy_call(agents[i])]]
    /\ pc' = "departures"
    /\ UNCHANGED <<bench, config, order_queues, shipment_queues, production_delay,
                   demand_schedule, current_week, history, week_start>>

\* step(), phase 3: the seven pushes.  Order queue k takes the order of
\* agent k; shipment queue k takes what agent k+1 shipped; the production
\* queue takes the Manufacturer's order.
step_departures ==
    /\ pc = "departures"
    /\ order_queues' = [k \in 1..3 |-> push_departure(order_queues[k], locals.order[k])]
    /\ shipment_queues' = [k \in 1..3 |-> push_departure(shipment_queues[k], locals.shipped[k + 1])]
    /\ production_delay' = push_departure(production_delay, locals.order[Manufacturer])
    /\ pc' = "record"
    /\ UNCHANGED <<bench, config, agents, demand_schedule, current_week, history, locals, week_start>>

\* record_history(): one record per agent, in agent order.
record_history ==
    /\ pc = "record"
    /\ history' = history \o [i \in 1..4 |-> HistoryRecord(current_week, agents[i])]
    /\ pc' = "advance"
    /\ UNCHANGED <<bench, config, agents, order_queues, shipment_queues, production_delay,
                   demand_schedule, current_week, locals, week_start>>

\* step(), last statement: `self.current_week += 1`, and back to run()'s loop.
step_advance ==
    /\ pc = "advance"
    /\ current_week' = current_week + 1
    /\ pc' = "run"
    /\ UNCHANGED <<bench, config, agents, order_queues, shipment_queues, production_delay,
                   demand_schedule, history, locals, week_start>>

Next ==
    \/ run
    \/ step_arrivals
    \/ step_receive
    \/ step_fulfill
    \/ step_decide
    \/ step_departures
    \/ record_history
    \/ step_advance

Spec == Init /\ [][Next]_vars

\* run() is sequential code: a statement that can run does run.
FairSpec == Spec /\ WF_vars(Next)

\* ------------------------------------------------------- io/demand.rs
\* generate_constant_demand(weeks, value): vec![value; weeks]
generate_constant_demand(weeks, value) == [k \in 1..weeks |-> value]

\* generate_classic_beer_game_demand(weeks): 4 while w < 4 (w from 0), then 8.
generate_classic_beer_game_demand(weeks) ==
    [k \in 1..weeks |-> IF k - 1 < 4 THEN 4 ELSE 8]

\* ------------------------------------------------- the scenarios of main()
\* Scenario A of main(): every stage on BaseStockPolicy::new(15), here under
\* a constant demand of 4 for 10 weeks, delays 2/2, initial inventory 15.
ScenarioA ==
    [config |-> [SimulationConfig_default EXCEPT !.max_weeks = 10],
     demand_schedule |-> generate_constant_demand(10, 4),
     strategies |-> <<BaseStockPolicy(15), BaseStockPolicy(15),
                      BaseStockPolicy(15), BaseStockPolicy(15)>>]

\* Scenario B of main(), the one it runs: the classic step demand for 25
\* weeks, the Retailer on BaseStockPolicy::new(15), the others naive.
ScenarioB ==
    [config |-> SimulationConfig_default,
     demand_schedule |-> generate_classic_beer_game_demand(25),
     strategies |-> <<BaseStockPolicy(15), NaivePolicy, NaivePolicy, NaivePolicy>>]

ScenarioInit ==
    /\ \E scenario \in {ScenarioA, ScenarioB} :
          InitWith(scenario.config, scenario.demand_schedule, scenario.strategies)
    /\ bench = NoBench

ScenarioSpec == ScenarioInit /\ [][Next]_vars

\* ------------------------------------ main(): construction, then the run
\* The program from the start of main(): the policies are built from their
\* constructor arguments, ChainSimulation::new is called with them, and the
\* simulation runs.  Before ChainSimulation::new has returned there is no
\* simulation object: its fields are empty.
Unbuilt == <<>>

\* The constructor calls main() makes for its strategies.
new_NaivePolicy == [new |-> "NaivePolicy"]
new_RandomPolicy(min, max) == [new |-> "RandomPolicy", min |-> min, max |-> max]
new_BaseStockPolicy(target_stock) == [new |-> "BaseStockPolicy", target_stock |-> target_stock]

\* What a constructor call returns.  None of the constructors has a failing
\* path: RandomPolicy::new stores min and max as they are.
build_policy(c) ==
    CASE c.new = "NaivePolicy" -> NaivePolicy
      [] c.new = "RandomPolicy" -> RandomPolicy(c.min, c.max)
      [] c.new = "BaseStockPolicy" -> BaseStockPolicy(c.target_stock)

\* Line-ups of 0, 3, 4 and 5 strategies; two of them hold a Random policy
\* whose range is empty (min > max).
Lineups ==
    { <<>>,
      <<new_NaivePolicy, new_NaivePolicy, new_NaivePolicy>>,
      <<new_BaseStockPolicy(MaxQty), new_NaivePolicy, new_NaivePolicy, new_NaivePolicy>>,
      <<new_NaivePolicy, new_BaseStockPolicy(MaxQty + 1),
        new_RandomPolicy(0, 1), new_BaseStockPolicy(MaxQty)>>,
      <<new_RandomPolicy(MaxQty, MaxQty), new_NaivePolicy, new_NaivePolicy, new_NaivePolicy>>,
      <<new_NaivePolicy, new_NaivePolicy, new_RandomPolicy(1, 0), new_NaivePolicy>>,
      <<new_RandomPolicy(MaxQty + 1, MaxQty), new_NaivePolicy,
        new_NaivePolicy, new_BaseStockPolicy(MaxQty)>>,
      <<new_NaivePolicy, new_NaivePolicy, new_NaivePolicy, new_NaivePolicy,
        new_BaseStockPolicy(MaxQty)>> }

MainInit ==
    /\ \E initial_inventory \in 0..MaxQty, holding_cost \in 0..MaxRate,
          backlog_cost \in 0..MaxRate, lineup \in Lineups,
          order_delay \in 0..MaxDelay, shipment_delay \in 0..MaxDelay :
          /\ config = [SimulationConfig_default EXCEPT
                          !.max_weeks = MaxWeeks,
                          !.order_delay = order_delay,
                          !.shipment_delay = shipment_delay,
                          !.initial_inventory = initial_inventory,
                          !.holding_cost = holding_cost,
                          !.backlog_cost = backlog_cost]
          /\ bench = [at |-> "main", lineup |-> lineup, strategies |-> <<>>]
    /\ demand_schedule = generate_constant_demand(MaxWeeks, MaxQty)
    /\ agents = Unbuilt
    /\ order_queues = Unbuilt
    /\ shipment_queues = Unbuilt
    /\ production_delay = Unbuilt
    /\ current_week = 0
    /\ history = Unbuilt
    /\ pc = "main"
    /\ locals = NoLocals
    /\ week_start = Unbuilt

\* main(), step 3: the strategies are built.
build_strategies ==
    /\ pc = "main"
    /\ bench' = [bench EXCEPT
                    !.strategies = [k \in 1..Len(bench.lineup) |-> build_policy(bench.lineup[k])],
                    !.at = "new"]
    /\ pc' = "new"
    /\ UNCHANGED <<config, agents, order_queues, shipment_queues, production_delay,
                   demand_schedule, current_week, history, locals, week_start>>

\* The length test as it would be if it only asked for enough strategies.
strategies_enough(strategies) == Len(strategies) >= 4

\* ChainSimulation::new, its first statement: `if strategies.len() != 4 { panic!(..) }`
strategies_accepted(strategies) == Len(strategies) = 4

\* ChainSimulation::new(config, demand_schedule, strategies): a panic, or
\* the simulation object.
ChainSimulation_new_call ==
    /\ pc = "new"
    /\ IF ~strategies_accepted(bench.strategies)
       THEN /\ pc' = "panicked"
            /\ UNCHANGED <<agents, order_queues, shipment_queues, production_delay,
                           current_week, history, week_start>>
       ELSE LET sim == ChainSimulation_new(config, demand_schedule, bench.strategies)
            IN  /\ agents' = sim.agents
                /\ order_queues' = sim.order_queues
                /\ shipment_queues' = sim.shipment_queues
                /\ production_delay' = sim.production_delay
                /\ current_week' = sim.current_week
                /\ history' = sim.history
                /\ week_start' = sim.agents
                /\ pc' = "run"
    /\ bench' = [bench EXCEPT !.at = "run"]
    /\ UNCHANGED <<config, demand_schedule, locals>>

\* step(), phase 2.3, when a policy call panics: the agents before that one
\* have made their decisions, the panic ends the program.
step_decide_panic ==
    /\ pc = "decide"
    /\ \E k \in 1..4 :
          /\ calculate_order_panics(agents[k].policy, policy_call(agents[k]).inventory,
                                    policy_call(agents[k]).backlog,
                                    policy_call(agents[k]).incoming_demand,
                                    policy_call(agents[k]).supply_line, OrderContext_default)
          /\ \E r_order \in IF k > Retailer THEN decision(agents[Retailer]) ELSE {0},
                w_order \in IF k > Wholesaler THEN decision(agents[Wholesaler]) ELSE {0},
                d_order \in IF k > Distributor THEN decision(agents[Distributor]) ELSE {0} :
                LET order == <<r_order, w_order, d_order, 0>>
                IN  agents' = [i \in 1..4 |-> IF i < k THEN make_decision(agents[i], order[i])
                                                      ELSE agents[i]]
    /\ pc' = "panicked"
    /\ UNCHANGED <<bench, config, order_queues, shipment_queues, production_delay,
                   demand_schedule, current_week, history, locals, week_start>>

MainNext ==
    \/ build_strategies
    \/ ChainSimulation_new_call
    \/ step_decide_panic
    \/ Next

MainSpec == MainInit /\ [][MainNext]_vars

\* ------------------------------------------- a policy called on its own
\* The u32 values a policy is called with: small ones, and the largest i32,
\* the smallest value above it, and the largest u32.
U32Samples == (0..MaxInput) \cup {i32_MAX, i32_MAX + 1, u32_MAX}

\* The targets the policies are built with.
TargetSamples == {0, MaxInput, 2 * MaxInput + 1}

\* The contexts a policy is called with: each downstream field absent,
\* zero, one or the largest u32.
ContextSamples ==
    [downstream_inventory : {None, Some(0), Some(1), Some(u32_MAX)},
     downstream_backlog : {None, Some(0), Some(1), Some(u32_MAX)},
     actual_customer_demand : {None}]

\* The policies called, each with the contexts it is called with (the Naive
\* and Base Stock policies do not read the context).
PolicyCalls ==
    ({[policy |-> NaivePolicy, target_stock |-> 0]}
       \cup {[policy |-> BaseStockPolicy(T), target_stock |-> T] : T \in TargetSamples})
        \X {OrderContext_default,
            [downstream_inventory |-> Some(0), downstream_backlog |-> Some(0),
             actual_customer_demand |-> Some(0)],
            [downstream_inventory |-> Some(1), downstream_backlog |-> None,
             actual_customer_demand |-> None]}
    \cup
    {[policy |-> VMIPolicy(T), target_stock |-> T] : T \in TargetSamples} \X ContextSamples

\* What a call of calculate_order can end in: the orders it can return and,
\* if it can panic, the panic.
calculate_order_outcomes(p, inventory, backlog, incoming_demand, supply_line, context) ==
    {[status |-> "returned", order |-> o] :
        o \in calculate_order(p, inventory, backlog, incoming_demand, supply_line, context)}
    \cup
    (IF calculate_order_panics(p, inventory, backlog, incoming_demand, supply_line, context)
     THEN {[status |-> "panicked", order |-> 0]} ELSE {})

\* No simulation has been constructed, and none will be.
NoSimulation ==
    /\ config = SimulationConfig_default
    /\ demand_schedule = <<>>
    /\ agents = Unbuilt
    /\ order_queues = Unbuilt
    /\ shipment_queues = Unbuilt
    /\ production_delay = Unbuilt
    /\ current_week = 0
    /\ history = Unbuilt
    /\ pc = "off"
    /\ locals = NoLocals
    /\ week_start = Unbuilt

\* Either a policy is about to be called on its own, no simulation running,
\* or a simulation is about to run.
PolicyInit ==
    \/ /\ NoSimulation
       /\ \E call \in PolicyCalls, inventory \in U32Samples, backlog \in U32Samples,
             incoming_demand \in U32Samples, supply_line \in U32Samples :
             bench = [at |-> "call",
                      policy |-> call[1].policy,
                      target_stock |-> call[1].target_stock,
                      inventory |-> inventory,
                      backlog |-> backlog,
                      incoming_demand |-> incoming_demand,
                      supply_line |-> supply_line,
                      context |-> call[2],
                      result |-> [status |-> "pending", order |-> 0]]
    \/ /\ \E initial_inventory \in 0..MaxQty, schedule \in Schedules,
             strategies \in Strategies :
             InitWith([SimulationConfig_default EXCEPT
                          !.max_weeks = MaxWeeks, !.order_delay = 1, !.shipment_delay = 1,
                          !.initial_inventory = initial_inventory],
                      schedule, strategies)
       /\ bench = NoBench

\* policy.calculate_order(inventory, backlog, incoming_demand, supply_line, &context)
policy_calculate_order ==
    /\ bench.at = "call"
    /\ \E outcome \in calculate_order_outcomes(bench.policy, bench.inventory, bench.backlog,
                                                bench.incoming_demand, bench.supply_line,
                                                bench.context) :
          bench' = [bench EXCEPT !.result = outcome, !.at = "returned"]
    /\ UNCHANGED simvars

PolicyNext ==
    \/ policy_calculate_order
    \/ Next

PolicySpec == PolicyInit /\ [][PolicyNext]_vars
\* ---- StermanHeuristic::calculate_order on its own ----
\* The values the policy is called with: small ones, the last integer below
\* 2^FloatBits, the first one above it that no f32 holds, and the edges of
\* i32 and u32.
F32Samples ==
    (0..(2 * MaxInput + 1)) \cup {2 ^ FloatBits - 1, 2 ^ FloatBits + 1, i32_MAX, u32_MAX}

\* A StermanHeuristic built by new(target_inv) is about to be called, no
\* simulation running.
StermanInit ==
    /\ NoSimulation
    /\ \E target_inv \in TargetSamples, inventory \in F32Samples, backlog \in F32Samples,
          demand \in F32Samples, supply_line \in F32Samples :
          bench = [at |-> "call",
                   policy |-> StermanHeuristic(target_inv),
                   target_stock |-> target_inv,
                   inventory |-> inventory,
                   backlog |-> backlog,
                   incoming_demand |-> demand,
                   supply_line |-> supply_line,
                   context |-> OrderContext_default,
                   result |-> [status |-> "pending", order |-> 0]]

StermanSpec == StermanInit /\ [][policy_calculate_order]_vars
\* ---- The step, one agent call at a time ----
\* The twelve agent calls of step() taken one by one, in any order that
\* keeps each agent's own receive_shipment, process_order, make_decision in
\* sequence: the order of step() itself (phase by phase) is one such order,
\* agent by agent is another.  bench.next[i] is the call agent i is due.

\* What agent i is handed to receive: the quantity popped for it at the
\* start of the step.
arrival_for(i) == locals.arrival[i]

\* The order handed to agent i as it would be if it were read off the
\* downstream agent instead of the order queue.
incoming_order_unqueued(i) ==
    IF i = Retailer THEN locals.incoming_order[i] ELSE agents[i - 1].last_order_placed

\* What agent i is handed to fulfil: the customer demand for the Retailer,
\* the order popped from its order queue for the others.
incoming_order_for(i) == locals.incoming_order[i]

\* Line-ups with a policy that keeps a state of its own (the Smoothing
\* policy's forecast) next to the stateless ones.
CallStrategies ==
    { <<SmoothingPolicy(f32_from_u32(MaxQty), f32_0_5, MaxQty + 1),
        SmoothingPolicy(f32_from_u32(0), f32_0_5, MaxQty),
        BaseStockPolicy(MaxQty), SmoothingPolicy(f32_from_u32(MaxQty), f32_0_5, 0)>>,
      <<BaseStockPolicy(MaxQty), NaivePolicy, NaivePolicy, NaivePolicy>>,
      <<NaivePolicy, SmoothingPolicy(f32_from_u32(0), f32_0_5, MaxQty + 1),
        RandomPolicy(0, 1), BaseStockPolicy(MaxQty)>> }

AllDue(call) == [at |-> "calls", next |-> <<call, call, call, call>>]

CallInit ==
    /\ \E initial_inventory \in 0..MaxQty, schedule \in Schedules,
          strategies \in CallStrategies :
          InitWith([SimulationConfig_default EXCEPT
                       !.max_weeks = MaxWeeks, !.order_delay = 1, !.shipment_delay = 1,
                       !.initial_inventory = initial_inventory],
                   schedule, strategies)
    /\ bench = AllDue("receive_shipment")

\* self.agents[i].receive_shipment(arrival)
call_receive_shipment ==
    /\ pc = "receive"
    /\ \E i \in 1..4 :
          /\ bench.next[i] = "receive_shipment"
          /\ agents' = [agents EXCEPT ![i] = receive_shipment(@, arrival_for(i))]
          /\ bench' = [bench EXCEPT !.next[i] = "process_order"]
    /\ UNCHANGED <<pc, config, order_queues, shipment_queues, production_delay,
                   demand_schedule, current_week, history, locals, week_start>>

\* let shipped = self.agents[i].process_order(incoming_order)
call_process_order ==
    /\ pc = "receive"
    /\ \E i \in 1..4 :
          /\ bench.next[i] = "process_order"
          /\ agents' = [agents EXCEPT ![i] = process_order(@, incoming_order_for(i))]
          /\ locals' = [locals EXCEPT !.shipped[i] = agents'[i].last_shipment_sent]
          /\ bench' = [bench EXCEPT !.next[i] = "make_decision"]
    /\ UNCHANGED <<pc, config, order_queues, shipment_queues, production_delay,
                   demand_schedule, current_week, history, week_start>>

\* let order = self.agents[i].make_decision()
call_make_decision ==
    /\ pc = "receive"
    /\ \E i \in 1..4 :
          /\ bench.next[i] = "make_decision"
          /\ \E order_qty \in decision(agents[i]) :
                /\ agents' = [agents EXCEPT ![i] = make_decision(@, order_qty)]
                /\ locals' = [locals EXCEPT !.order[i] = order_qty,
                                            !.call[i] = policy_call(agents[i])]
          /\ bench' = [bench EXCEPT !.next[i] = "returned"]
    /\ UNCHANGED <<pc, config, order_queues, shipment_queues, production_delay,
                   demand_schedule, current_week, history, week_start>>

\* All twelve calls have returned: the step goes on to its pushes.
calls_returned ==
    /\ pc = "receive"
    /\ \A i \in 1..4 : bench.next[i] = "returned"
    /\ pc' = "departures"
    /\ bench' = AllDue("receive_shipment")
    /\ UNCHANGED <<config, agents, order_queues, shipment_queues, production_delay,
                   demand_schedule, current_week, history, locals, week_start>>

CallNext ==
    \/ run
    \/ step_arrivals
    \/ call_receive_shipment
    \/ call_process_order
    \/ call_make_decision
    \/ calls_returned
    \/ step_departures
    \/ record_history
    \/ step_advance

CallSpec == CallInit /\ [][CallNext]_vars

\* ------------------------------------------- runs under a constant demand
\* A constant demand D for the whole horizon, every base-stock target at
\* least D * (order_delay + shipment_delay + 1), the line-ups A and B of
\* main().
EquilibriumInit ==
    /\ \E D \in 1..EqDemand, order_delay \in 0..MaxDelay, shipment_delay \in 0..MaxDelay :
       \E T \in D * (order_delay + shipment_delay + 1)
                  .. D * (order_delay + shipment_delay + 1) + EqSlack :
       \E initial_inventory \in Max(0, T - EqSlack) .. T + D :
       \E strategies \in { <<BaseStockPolicy(T), BaseStockPolicy(T),
                              BaseStockPolicy(T), BaseStockPolicy(T)>>,
                            <<BaseStockPolicy(T), NaivePolicy, NaivePolicy, NaivePolicy>> } :
          InitWith([SimulationConfig_default EXCEPT
                       !.max_weeks = EqWeeks,
                       !.order_delay = order_delay,
                       !.shipment_delay = shipment_delay,
                       !.initial_inventory = initial_inventory],
                   generate_constant_demand(EqWeeks, D), strategies)
    /\ bench = NoBench

EquilibriumSpec == EquilibriumInit /\ [][Next]_vars

\* ------------------------------------- a TimeDelayQueue driven on its own
\* The queue is built with some delay and then driven the way its comments
\* ask: pop_arrival at the start of a turn, push_departure at its end.
QueueInit ==
    /\ InitWith([SimulationConfig_default EXCEPT
                    !.max_weeks = 0, !.order_delay = 0, !.shipment_delay = 0,
                    !.initial_inventory = 0], <<>>,
                <<NaivePolicy, NaivePolicy, NaivePolicy, NaivePolicy>>)
    /\ \E delay \in 0..MaxQueueDelay :
          bench = [q |-> TimeDelayQueue_new(delay), pushed |-> <<>>,
                   popped |-> <<>>, at |-> "pop"]

queue_pop_arrival ==
    /\ bench.at = "pop"
    /\ Len(bench.popped) < MaxTurns
    /\ bench' = [bench EXCEPT !.popped = Append(@, pop_arrival_value(bench.q)),
                              !.q = pop_arrival(@),
                              !.at = "push"]
    /\ UNCHANGED simvars

queue_push_departure ==
    /\ bench.at = "push"
    /\ \E item \in 0..MaxItem :
          bench' = [bench EXCEPT !.pushed = Append(@, item),
                                 !.q = push_departure(@, item),
                                 !.at = "pop"]
    /\ UNCHANGED simvars

QueueNext ==
    \/ queue_pop_arrival
    \/ queue_push_departure

QueueSpec == QueueInit /\ [][QueueNext]_vars

\* =================================================================== claims

\* C1: conservation in every turn of step, for every agent: with
\* shipment_sent = min(inventory_before + shipment_received,
\* incoming_order + backlog_before), the turn leaves
\* inventory = inventory_before + shipment_received - shipment_sent >= 0 and
\* backlog = max(0, (incoming_order + backlog_before)
\*                  - (inventory_before + shipment_received)).
\* (From the fulfilment of one turn to the arrivals of the next, week_start
\* and locals hold the turn's starting state and its inputs.)
C1_Conservation ==
    pc \notin {"receive", "fulfill"} =>
        \A i \in 1..4 :
            LET inventory_before == week_start[i].inventory
                backlog_before == week_start[i].backlog
                shipment_received == locals.arrival[i]
                incoming_order == locals.incoming_order[i]
                available == inventory_before + shipment_received
                owed == incoming_order + backlog_before
                shipment_sent == Min(available, owed)
            IN  /\ locals.shipped[i] = shipment_sent
                /\ agents[i].inventory = inventory_before + shipment_received - shipment_sent
                /\ agents[i].inventory >= 0
                /\ agents[i].backlog = Max(0, owed - available)

\* A turn in which one agent received goods, shipped some and still fell
\* short, while another one filled its whole demand and kept stock.
C1_Witness ==
    /\ pc = "record"
    /\ \E i \in 1..4 :
          /\ locals.arrival[i] > 0
          /\ locals.shipped[i] > 0
          /\ week_start[i].backlog > 0
          /\ agents[i].backlog > 0
    /\ \E j \in 1..4 :
          /\ locals.shipped[j] > 0
          /\ agents[j].inventory > 0
          /\ agents[j].backlog = 0

\* C2: in every reachable state every agent's inventory, backlog and
\* supply_line, every order placed, every shipment sent and every entry of
\* every pipeline is >= 0.
C2_NonNegative ==
    /\ \A i \in 1..4 :
          /\ agents[i].inventory >= 0
          /\ agents[i].backlog >= 0
          /\ agents[i].supply_line >= 0
          /\ agents[i].last_order_placed >= 0
          /\ agents[i].last_shipment_sent >= 0
          /\ locals.order[i] >= 0
          /\ locals.shipped[i] >= 0
    /\ \A k \in 1..3 :
          /\ \A n \in 1..len(order_queues[k]) : order_queues[k].buffer[n] >= 0
          /\ \A n \in 1..len(shipment_queues[k]) : shipment_queues[k].buffer[n] >= 0
    /\ \A n \in 1..len(production_delay) : production_delay.buffer[n] >= 0
    /\ \A j \in 1..Len(history) :
          /\ history[j].inventory >= 0
          /\ history[j].backlog >= 0
          /\ history[j].order_placed >= 0
          /\ history[j].shipment_sent >= 0

\* A base-stock agent above its target, whose order was clamped to 0, next
\* to an agent with an empty shelf and a backlog.
C2_Witness ==
    /\ pc = "departures"
    /\ \E i \in 1..4 :
          /\ agents[i].policy.kind = "BaseStock"
          /\ locals.call[i].incoming_demand + agents[i].policy.target_stock
                < locals.call[i].inventory - locals.call[i].backlog + locals.call[i].supply_line
          /\ locals.order[i] = 0
    /\ \E j \in 1..4 : agents[j].inventory = 0 /\ agents[j].backlog > 0

\* The turns of a queue driven on its own in which a value went in while
\* every other push so far was 0.
ImpulseTurns ==
    {t \in 1..Len(bench.pushed) :
        \A k \in 1..Len(bench.pushed) : k # t => bench.pushed[k] = 0}

\* What C3 says of a queue whose transit takes `lag` turns: a lone value
\* pushed at turn t comes out at turn t + lag and 0 comes out at every turn
\* before it, and the first `lag` pops return 0 whatever is pushed.
LagExact(lag) ==
    /\ \A t \in ImpulseTurns :
          \A k \in 1..Len(bench.popped) :
              /\ k = t + lag => bench.popped[k] = bench.pushed[t]
              /\ k < t + lag => bench.popped[k] = 0
    /\ \A k \in 1..Len(bench.popped) : k <= lag => bench.popped[k] = 0

\* C3: for a TimeDelayQueue built with delay d and driven once per turn by
\* pop_arrival then push_departure, a value v pushed at turn t (0 at every
\* other turn) is returned by pop_arrival at turn t + d and 0 is returned at
\* every other turn of [1, t+d-1]; the first d pops return 0 whatever is pushed.
C3_LagExact == LagExact(bench.q.delay_length)

\* What the queue does for every delay, 0 included: a queue built with
\* delay 0 behaves as one built with delay 1.
QueueLagEffective == LagExact(Max(bench.q.delay_length, 1))

\* A lone value has gone through a queue of delay 2 and come out.
QueueLagReached ==
    /\ bench.q.delay_length = 2
    /\ \E t \in ImpulseTurns :
          /\ bench.pushed[t] > 0
          /\ Len(bench.popped) >= t + 2

\* The seven pipelines with the delay each was constructed with.
Pipelines ==
    [k \in 1..7 |->
        IF k <= 3 THEN [queue |-> order_queues[k], delay |-> config.order_delay]
        ELSE IF k <= 6 THEN [queue |-> shipment_queues[k - 3], delay |-> config.shipment_delay]
        ELSE [queue |-> production_delay, delay |-> config.shipment_delay]]

\* What C4 says, when a pipeline built with delay 0 is to hold
\* zero_delay_depth entries once a step has pushed into it.
ConstantDepth(zero_delay_depth) ==
    LET pushed_into == pc \in {"record", "advance"} \/ current_week > 1
        depth(delay) == IF delay = 0 /\ pushed_into THEN zero_delay_depth ELSE delay
    IN  /\ pc \in {"record", "advance", "run", "arrivals", "done"} =>
              \A k \in 1..7 : len(Pipelines[k].queue) = depth(Pipelines[k].delay)
        /\ pc = "arrivals" =>
              \A k \in 1..7 :
                  \/ len(Pipelines[k].queue) > 0
                  \/ zero_delay_depth # 0 /\ Pipelines[k].delay = 0 /\ current_week = 1

\* C4: for every configured order_delay and shipment_delay, at the end of
\* every step each of the seven pipelines holds exactly as many entries as
\* the delay it was constructed with, and pop_arrival is never called on an
\* empty pipeline (the pops of a step are those of the state "arrivals").
C4_ConstantDepth == ConstantDepth(0)

\* What the pipelines do for every delay, 0 included: a pipeline built with
\* delay 0 is popped empty in week 1 and holds one entry from then on.
PipelineDepthEffective == ConstantDepth(1)

\* history[HistoryAt(w, i)] is the record of week w for agent i.
HistoryAt(w, i) == 4 * (w - 1) + i

WeeksRecorded == Len(history) \div 4

\* What C5 says when an order takes order_lag weeks and a shipment (or the
\* production) shipment_lag weeks.
Wiring(order_lag, shipment_lag) ==
    /\ \A t \in 1..WeeksRecorded :
          /\ \A i \in 1..3 :
                t + order_lag <= WeeksRecorded =>
                    history[HistoryAt(t + order_lag, i + 1)].incoming_demand
                        = history[HistoryAt(t, i)].order_placed
          /\ \A i \in 1..3 :
                t + shipment_lag <= WeeksRecorded =>
                    history[HistoryAt(t + shipment_lag, i)].shipment_received
                        = history[HistoryAt(t, i + 1)].shipment_sent
          /\ t + shipment_lag <= WeeksRecorded =>
                history[HistoryAt(t + shipment_lag, Manufacturer)].shipment_received
                    = history[HistoryAt(t, Manufacturer)].order_placed
    /\ pc = "record" =>
          /\ \A k \in 1..3 :
                /\ order_queues[k].buffer[len(order_queues[k])] = agents[k].last_order_placed
                /\ shipment_queues[k].buffer[len(shipment_queues[k])]
                        = agents[k + 1].last_shipment_sent
          /\ production_delay.buffer[len(production_delay)]
                = agents[Manufacturer].last_order_placed

\* C5: the order agent i (Retailer, Wholesaler, Distributor) places in week t
\* is the incoming order agent i+1 processes in week t + order_delay; the
\* shipment agent i+1 sends in week t is the shipment agent i receives in week
\* t + shipment_delay; the Manufacturer's order of week t is the shipment it
\* receives itself after the production pipeline's delay (shipment_delay);
\* the pipelines take the orders of agents 1..3, the shipments of agents 2..4
\* and the Manufacturer's order, so the Retailer's shipment enters none.
C5_Wiring == Wiring(config.order_delay, config.shipment_delay)

\* The wiring for every delay, 0 included: a delay of 0 acts as a delay of 1.
WiringEffective == Wiring(Max(config.order_delay, 1), Max(config.shipment_delay, 1))

\* Nonzero orders have travelled through an order pipeline and the
\* production pipeline, both of delay 2.
WiringReached ==
    /\ config.order_delay = 2
    /\ config.shipment_delay = 2
    /\ WeeksRecorded >= 3
    /\ \E i \in 1..3 :
          /\ history[HistoryAt(1, i)].order_placed > 0
          /\ history[HistoryAt(2, i)].order_placed # history[HistoryAt(1, i)].order_placed
          /\ history[HistoryAt(3, i + 1)].incoming_demand > 0
    /\ history[HistoryAt(1, Manufacturer)].order_placed > 0
    /\ history[HistoryAt(3, Manufacturer)].shipment_received > 0

\* A nonzero shipment, not the Retailer's, has travelled to the neighbour.
ShipmentReached ==
    /\ WeeksRecorded >= 3
    /\ \E i \in 1..3 :
          /\ history[HistoryAt(2, i + 1)].shipment_sent > 0
          /\ history[HistoryAt(3, i)].shipment_received > 0
          /\ history[HistoryAt(2, Retailer)].shipment_sent
                # history[HistoryAt(2, i + 1)].shipment_sent

\* The order in which control passes through run() and step().
PhaseSuccession ==
    {<<"run", "arrivals">>, <<"run", "done">>, <<"arrivals", "receive">>,
     <<"receive", "fulfill">>, <<"fulfill", "decide">>, <<"decide", "departures">>,
     <<"departures", "record">>, <<"record", "advance">>, <<"advance", "run">>}

\* Each phase follows the one before it, and only the phase it belongs to
\* changes the agents, the pipelines, the history or the week.
PhaseStep ==
    /\ pc' # pc => <<pc, pc'>> \in PhaseSuccession
    /\ agents' # agents => pc \in {"receive", "fulfill", "decide"}
    /\ <<order_queues, shipment_queues, production_delay>>'
            # <<order_queues, shipment_queues, production_delay>>
          => pc \in {"arrivals", "departures"}
    /\ \A k \in 1..7 : len(Pipelines[k].queue') < len(Pipelines[k].queue) => pc = "arrivals"
    /\ \A k \in 1..7 : len(Pipelines[k].queue') > len(Pipelines[k].queue) => pc = "departures"
    /\ history' # history => pc = "record"
    /\ current_week' # current_week => pc = "advance"

\* Once the decisions of a turn are made: each policy was called with the
\* inventory and backlog its agent's process_order left in this turn, the
\* supply_line its receive_shipment left, and the order processed in this
\* turn; the order is one the policy returns for these arguments, and it was
\* added to supply_line after the call.
DecisionInputs ==
    locals.week >= 1 /\ pc \notin {"receive", "fulfill", "decide"} =>
        \A i \in 1..4 :
            LET before == week_start[i]
                call == locals.call[i]
                available == before.inventory + locals.arrival[i]
                owed == locals.incoming_order[i] + before.backlog
            IN  /\ call.inventory = available - Min(available, owed)
                /\ call.backlog = Max(0, owed - available)
                /\ call.supply_line = Max(0, before.supply_line - locals.arrival[i])
                /\ call.incoming_demand = locals.incoming_order[i]
                /\ locals.order[i] \in
                      calculate_order(agents[i].policy, call.inventory, call.backlog,
                                      call.incoming_demand, call.supply_line,
                                      OrderContext_default)
                /\ agents[i].supply_line = call.supply_line + locals.order[i]
                /\ agents[i].last_order_placed = locals.order[i]

\* C6: within every step the phases run in the order pop arrivals -> receive
\* -> fulfill -> decide -> push departures -> record -> advance week, so each
\* policy is invoked with the inventory and backlog left by the same turn's
\* process_order, the supply_line left by the same turn's receive_shipment
\* and the order processed in the same turn, and supply_line grows by the
\* returned order only after the policy has computed it.
C6_PhaseOrder == [][PhaseStep]_vars /\ []DecisionInputs

\* A turn in which an agent's receive_shipment, process_order and decision
\* each changed what the policy sees or leaves.
C6_Witness ==
    /\ pc = "record"
    /\ \E i \in 1..4 :
          /\ locals.arrival[i] > 0
          /\ locals.incoming_order[i] > 0
          /\ locals.order[i] > 0
          /\ locals.call[i].supply_line # week_start[i].supply_line
          /\ locals.call[i].inventory # week_start[i].inventory
          /\ locals.call[i].inventory # week_start[i].inventory + locals.arrival[i]

\* The history is only ever appended to.
HistoryAppendOnly ==
    /\ Len(history') >= Len(history)
    /\ SubSeq(history', 1, Len(history)) = history

\* Between steps the history holds four records per completed step; after
\* run() it holds one record for every week of the horizon and every role,
\* and nothing else.
HistoryComplete ==
    /\ pc \in {"run", "done"} => Len(history) = 4 * locals.week
    /\ pc = "done" =>
          /\ Len(history) = 4 * config.max_weeks
          /\ \A w \in 1..config.max_weeks, i \in 1..4 :
                Cardinality({j \in 1..Len(history) :
                                history[j].week = w /\ history[j].role = AgentRole[i]}) = 1

\* C7: after k completed steps len(history) = 4k; after run() with horizon W
\* the history holds exactly one record for every (week, role) of
\* [1..W] x the four roles and no other; records once appended are never
\* changed or removed.
C7_History == []HistoryComplete /\ [][HistoryAppendOnly]_vars

\* A run over the longest horizon has returned.
C7_Witness ==
    /\ pc = "done"
    /\ config.max_weeks = MaxWeeks
    /\ Len(history) = 4 * MaxWeeks

\* C8: run() terminates for every horizon max_weeks >= 0: current_week starts
\* at 1, grows by exactly 1 per step and never decreases, step is executed
\* exactly max_weeks times (the last step run is that of week max_weeks, none
\* if max_weeks = 0), and on return current_week = max_weeks + 1.
C8_RunTerminates ==
    /\ current_week = 1
    /\ [][\/ current_week' = current_week
          \/ pc = "advance" /\ current_week' = current_week + 1]_vars
    /\ [][pc = "advance" => current_week' = current_week + 1]_vars
    /\ [](pc = "done" => /\ current_week = config.max_weeks + 1
                         /\ locals.week = config.max_weeks
                         /\ WeeksRecorded = config.max_weeks)
    /\ <>(pc = "done")

\* run() has returned after the longest horizon.
C8_Witness ==
    /\ pc = "done"
    /\ config.max_weeks = MaxWeeks
    /\ current_week = MaxWeeks + 1

\* C9: in week w the Retailer processes demand_schedule[w-1] (entry w of the
\* sequence here) when w <= len(demand_schedule) and 0 otherwise; a schedule
\* shorter than the horizon, the empty one included, never stops the run
\* (every state short of run()'s return has a next step); and no week past the
\* horizon is ever run, so later entries of a longer schedule are not read.
C9_Demand ==
    /\ \A j \in 1..Len(history) :
          /\ history[j].week <= config.max_weeks
          /\ history[j].role = "Retailer" =>
                history[j].incoming_demand =
                    IF history[j].week <= Len(demand_schedule)
                    THEN demand_schedule[history[j].week] ELSE 0
    /\ locals.week >= 1 =>
          /\ locals.week <= config.max_weeks
          /\ locals.incoming_order[Retailer] =
                IF locals.week <= Len(demand_schedule)
                THEN demand_schedule[locals.week] ELSE 0
    /\ pc # "done" => ENABLED Next

\* A run whose schedule, with two different entries, ended before the horizon.
C9_Witness ==
    /\ pc = "done"
    /\ Len(demand_schedule) = 2
    /\ demand_schedule[1] # demand_schedule[2]
    /\ config.max_weeks = 3
    /\ history[HistoryAt(2, Retailer)].incoming_demand = demand_schedule[2]
    /\ history[HistoryAt(3, Retailer)].incoming_demand = 0

\* The run is that of scenario A.
InScenarioA ==
    /\ config = ScenarioA.config
    /\ demand_schedule = ScenarioA.demand_schedule
    /\ \A i \in 1..4 : agents[i].policy = ScenarioA.strategies[i]

\* C10, as claimed: with constant demand 4, horizon 10, delays 2/2, initial
\* inventory 15 and every stage on BaseStockPolicy with target 15, the backlog
\* of every stage is 0 at the end of every week 1..10.
C10_NoStockout ==
    InScenarioA => \A j \in 1..Len(history) : history[j].backlog = 0

\* The end-of-week backlogs of scenario A, one row per week, in the order
\* Retailer, Wholesaler, Distributor, Manufacturer.
ScenarioABacklog ==
    << <<0, 0, 0, 0>>, <<0, 0, 0, 0>>, <<0, 0, 0, 0>>, <<1, 0, 0, 0>>,
       <<0, 1, 1, 0>>, <<0, 5, 1, 0>>, <<0, 0, 5, 17>>, <<2, 0, 9, 17>>,
       <<0, 2, 0, 0>>, <<0, 6, 2, 0>> >>

\* C10, as amended: in that scenario every stage ends weeks 1..3 without
\* backlog, the Retailer stocks out in week 4 (its 15 units cannot cover the
\* 16 demanded before the first replenishment can arrive in week 5), and the
\* backlogs at the end of each week are those of ScenarioABacklog.
C10_Backlogs ==
    InScenarioA =>
        \A j \in 1..Len(history) :
            /\ history[j].week \in 1..10
            /\ \E i \in 1..4 :
                  /\ history[j].role = AgentRole[i]
                  /\ history[j].backlog = ScenarioABacklog[history[j].week][i]

\* Scenario A has run to its end.
C10_Witness ==
    /\ InScenarioA
    /\ pc = "done"
    /\ Len(history) = 40
    /\ history[HistoryAt(4, Retailer)].backlog = 1

\* The orders a stage placed, week by week, as the history records them.
OrdersPlaced(i) ==
    [w \in 1..WeeksRecorded |-> history[HistoryAt(w, i)].order_placed]

ScenarioAOrders ==
    << <<8, 4, 4, 4, 4, 4, 4, 4, 4, 4>>,
       <<0, 0, 16, 0, 4, 4, 4, 4, 4, 4>>,
       <<0, 0, 0, 0, 32, 0, 0, 0, 0, 4>>,
       <<0, 0, 0, 0, 0, 0, 64, 0, 0, 0>> >>

C11_Orders ==
    (InScenarioA /\ pc = "done") =>
        \A i \in 1..4 : OrdersPlaced(i) = ScenarioAOrders[i]

InScenarioB ==
    /\ config = ScenarioB.config
    /\ demand_schedule = ScenarioB.demand_schedule
    /\ \A i \in 1..4 : agents[i].policy = ScenarioB.strategies[i]

RECURSIVE SeqSum(_)
SeqSum(seq) == IF seq = <<>> THEN 0 ELSE Head(seq) + SeqSum(Tail(seq))

\* n^2 times the (population) variance of a sequence of n numbers:
\* n * sum of squares - (sum)^2.  For sequences of the same length the
\* variances compare as these numbers do.
ScaledVariance(seq) ==
    Len(seq) * SeqSum([k \in 1..Len(seq) |-> seq[k] * seq[k]]) - SeqSum(seq) * SeqSum(seq)

\* C13: in scenario B (step demand 4 then 8 from week 5, horizon 25, delays
\* 2/2, initial inventory 15, the Retailer on BaseStockPolicy(15), the other
\* stages on NaivePolicy) the variance over the 25 weeks of order_placed of
\* each Naive stage is strictly greater than that of the Retailer.
C13_NaiveVariance ==
    (InScenarioB /\ pc = "done") =>
        \A i \in {Wholesaler, Distributor, Manufacturer} :
            /\ Len(OrdersPlaced(i)) = Len(OrdersPlaced(Retailer))
            /\ ScaledVariance(OrdersPlaced(i)) > ScaledVariance(OrdersPlaced(Retailer))

\* Scenario B has run its 25 weeks, and the Retailer's orders did vary.
C13_Witness ==
    /\ InScenarioB
    /\ pc = "done"
    /\ WeeksRecorded = 25
    /\ ScaledVariance(OrdersPlaced(Retailer)) > 0
    /\ OrdersPlaced(Wholesaler)[1] = 0
    /\ OrdersPlaced(Wholesaler)[25] = 8

RECURSIVE SupplyLineAfter(_, _)
\* The supply line of stage i at the end of week w, from the history alone:
\* what was left of it after the week's arrival, plus the week's order.
SupplyLineAfter(w, i) ==
    IF w = 0 THEN 0
    ELSE Max(0, SupplyLineAfter(w - 1, i) - history[HistoryAt(w, i)].shipment_received)
         + history[HistoryAt(w, i)].order_placed

\* The net inventory position inventory - backlog + supply_line that the
\* policy of stage i saw at its decision of week w.
NetPositionSeen(w, i) ==
    history[HistoryAt(w, i)].inventory - history[HistoryAt(w, i)].backlog
    + Max(0, SupplyLineAfter(w - 1, i) - history[HistoryAt(w, i)].shipment_received)

\* Stage i is in equilibrium in week w: it orders the demand and sees its
\* net inventory position at its target.
InEquilibrium(w, i) ==
    /\ history[HistoryAt(w, i)].order_placed = demand_schedule[1]
    /\ NetPositionSeen(w, i) = agents[i].policy.target_stock

\* C12: under a constant external demand D, a stage on BaseStockPolicy with
\* target T >= D * (order_delay + shipment_delay + 1) reaches an equilibrium:
\* there is a week after which, at every later decision up to the horizon,
\* its order is D and the net inventory position (inventory - backlog +
\* supply_line) its policy sees is T.  (The position read off the history is
\* the one the policy was called with.)
C12_Equilibrium ==
    /\ pc = "advance" =>
          \A i \in 1..4 :
              NetPositionSeen(current_week, i)
                  = locals.call[i].inventory - locals.call[i].backlog
                    + locals.call[i].supply_line
    /\ pc = "done" =>
          \A i \in 1..4 :
              agents[i].policy.kind = "BaseStock" =>
                  \E w \in 1..config.max_weeks :
                      \A v \in w..config.max_weeks : InEquilibrium(v, i)

\* A run has ended in which the Manufacturer, on a base-stock policy behind
\* delays of 2 and 2, was still out of equilibrium in week 20 and then
\* reached it.
C12_Witness ==
    /\ pc = "done"
    /\ WeeksRecorded = EqWeeks
    /\ config.order_delay = 2
    /\ config.shipment_delay = 2
    /\ agents[Manufacturer].policy.kind = "BaseStock"
    /\ ~InEquilibrium(20, Manufacturer)
    /\ \A v \in EqWeeks - 2 .. EqWeeks : \A i \in 1..4 : InEquilibrium(v, i)

\* There is no simulation object, no step has run, nothing is recorded.
NothingBuilt ==
    /\ agents = Unbuilt
    /\ order_queues = Unbuilt
    /\ shipment_queues = Unbuilt
    /\ production_delay = Unbuilt
    /\ history = Unbuilt
    /\ current_week = 0
    /\ locals = NoLocals

\* ChainSimulation::new has returned a simulation object.
Constructed ==
    /\ Len(agents) = 4
    /\ \A i \in 1..4 :
          /\ agents[i].role = AgentRole[i]
          /\ agents[i].policy = bench.strategies[i]
    /\ Len(order_queues) = 3
    /\ Len(shipment_queues) = 3
    /\ current_week >= 1

\* C14: ChainSimulation::new called with a number of policies other than 4
\* fails at construction: the call panics, no simulation object is produced,
\* no step runs and no history is recorded; with exactly 4 policies the
\* construction succeeds.
C14_FourPolicies ==
    /\ Len(bench.lineup) # 4 =>
          /\ pc \in {"main", "new", "panicked"}
          /\ NothingBuilt
    /\ (Len(bench.lineup) = 4 /\ pc \notin {"main", "new"}) => Constructed
    /\ (Len(bench.lineup) = 4 /\ pc \in {"main", "new"}) => (NothingBuilt /\ ENABLED MainNext)

\* ChainSimulation::new has panicked on five policies ...
C14_Witness ==
    /\ pc = "panicked"
    /\ Len(bench.strategies) = 5
    /\ NothingBuilt

\* ... and has built a simulation from four, which has run to its end.
C14_Built ==
    /\ pc = "done"
    /\ Len(bench.strategies) = 4
    /\ Constructed
    /\ Len(history) = 4 * MaxWeeks

\* A Random policy of the line-up has a malformed range.
MalformedRange ==
    \E k \in 1..Len(bench.lineup) :
        /\ bench.lineup[k].new = "RandomPolicy"
        /\ bench.lineup[k].min > bench.lineup[k].max

\* C15: a Random policy with a malformed range (min > max) is refused when
\* the policy is built: the program gets no further than building it, and no
\* simulation step has run nor any state been changed.
C15_RefusedAtConstruction ==
    MalformedRange =>
        /\ pc \in {"main", "panicked"}
        /\ bench.strategies = <<>>
        /\ NothingBuilt

\* What the code does with a malformed range: the policy is built and bound
\* to its agent, and the program panics at that policy's first call, in the
\* decision phase of week 1, after every agent has received and fulfilled.
C15_FailsAtFirstCall ==
    (MalformedRange /\ Len(bench.lineup) = 4) =>
        /\ pc \notin {"departures", "record", "advance", "done"}
        /\ pc = "panicked" =>
              /\ Constructed
              /\ locals.week = 1
              /\ history = <<>>
              /\ \A i \in 1..4 : agents[i].last_order_received = locals.incoming_order[i]

\* The program has panicked in the decision phase with a malformed Random
\* policy, after the Retailer has shipped from its inventory.
C15_PanicReached ==
    /\ MalformedRange
    /\ pc = "panicked"
    /\ Constructed
    /\ agents[Retailer].last_shipment_sent = 1
    /\ agents[Retailer].inventory = config.initial_inventory - 1

\* C16: the cost stored in every history record is holding_cost_rate *
\* inventory + backlog_cost_rate * backlog, for the agent's end-of-turn
\* inventory and backlog and the two rates of the simulation's configuration
\* (all costs in units of $0.50).
C16_CostRates ==
    \A j \in 1..Len(history) :
        history[j].cost = config.holding_cost * history[j].inventory
                          + config.backlog_cost * history[j].backlog

\* What the code records: the cost at the rates 0.5 and 1.0, whatever the
\* configuration says.
C16_CostDefaults ==
    \A j \in 1..Len(history) :
        history[j].cost = SimulationConfig_default.holding_cost * history[j].inventory
                          + SimulationConfig_default.backlog_cost * history[j].backlog

\* A record with inventory and one with backlog exist, under rates that are
\* not the defaults.
C16_RatesDiffer ==
    /\ config.holding_cost # SimulationConfig_default.holding_cost
    /\ config.backlog_cost # SimulationConfig_default.backlog_cost
    /\ \E j \in 1..Len(history) : history[j].inventory > 0
    /\ \E j \in 1..Len(history) : history[j].backlog > 0

\* A call of the policy of the given kind, made on its own, has ended.
Called(kind) == bench.at = "returned" /\ bench.policy.kind = kind

\* The net inventory position of the call, inventory - backlog + supply_line,
\* as an integer.
NetPositionOfCall == bench.inventory - bench.backlog + bench.supply_line

\* C17: for all non-negative integer (u32) inputs, BaseStockPolicy with
\* target T returns order = max(0, incoming_demand + (T - (inventory -
\* backlog + supply_line))), so that goods already in the supply line are
\* not ordered a second time.
C17_BaseStockFormula ==
    Called("BaseStock") =>
        /\ bench.result.status = "returned"
        /\ bench.result.order
              = Max(0, bench.incoming_demand + (bench.target_stock - NetPositionOfCall))

\* What holds of the code: the formula, for inputs that are i32 values too
\* and whose net position and gap are i32 values.
C17_FormulaWithinI32 ==
    (/\ Called("BaseStock")
     /\ \A x \in {bench.inventory, bench.backlog, bench.incoming_demand, bench.supply_line} :
           x <= i32_MAX
     /\ ~i32_overflows(bench.inventory - bench.backlog)
     /\ ~i32_overflows(NetPositionOfCall)
     /\ ~i32_overflows(bench.target_stock - NetPositionOfCall)
     /\ ~i32_overflows(bench.incoming_demand + (bench.target_stock - NetPositionOfCall)))
    =>
        /\ bench.result.status = "returned"
        /\ bench.result.order
              = Max(0, bench.incoming_demand + (bench.target_stock - NetPositionOfCall))

\* A call with the largest u32 as inventory (-1 as an i32) has returned the
\* target plus 1, where the formula gives 0.
C17_LargeInventory ==
    /\ Called("BaseStock")
    /\ bench.inventory = u32_MAX
    /\ bench.backlog = 0
    /\ bench.incoming_demand = 0
    /\ bench.supply_line = 0
    /\ bench.result = [status |-> "returned", order |-> bench.target_stock + 1]

\* C18: for all inputs and any context NaivePolicy.calculate_order returns
\* exactly incoming_demand, whatever inventory, backlog and supply_line are;
\* hence in a simulation the order a Naive stage places in a week, and its
\* order_placed in every history record, is the order it processed that week.
C18_NaiveIdentity ==
    /\ Called("Naive") =>
          /\ bench.result.status = "returned"
          /\ bench.result.order = bench.incoming_demand
    /\ bench.at = "off" =>
          \A i \in 1..4 :
              agents[i].policy.kind = "Naive" =>
                  /\ pc \in {"departures", "record", "advance"} =>
                        /\ locals.order[i] = locals.incoming_order[i]
                        /\ agents[i].last_order_placed = locals.incoming_order[i]
                  /\ \A w \in 1..WeeksRecorded :
                        /\ history[HistoryAt(w, i)].order_placed
                              = history[HistoryAt(w, i)].incoming_demand
                        /\ (w = current_week /\ pc = "advance") =>
                              history[HistoryAt(w, i)].order_placed = locals.incoming_order[i]

\* The Naive policy has been called with a demand of 1 on an agent with the
\* largest inventory, a backlog and a supply line, under a context with
\* downstream visibility.
C18_Witness ==
    /\ Called("Naive")
    /\ bench.incoming_demand = 1
    /\ bench.inventory = u32_MAX
    /\ bench.backlog = 2
    /\ bench.supply_line = i32_MAX
    /\ bench.context.downstream_inventory = Some(0)

\* A simulation has ended in which a Naive Wholesaler with a backlog placed
\* an order of 1.
C18_InSimulation ==
    /\ bench.at = "off"
    /\ pc = "done"
    /\ agents[Wholesaler].policy.kind = "Naive"
    /\ \E w \in 1..WeeksRecorded :
          /\ history[HistoryAt(w, Wholesaler)].order_placed = 1
          /\ history[HistoryAt(w, Wholesaler)].backlog > 0

\* The context of the call carries no downstream visibility.
NoVisibility ==
    /\ bench.context.downstream_inventory = None
    /\ bench.context.downstream_backlog = None

\* C19: when the context carries no downstream visibility, VMIPolicy with
\* target T returns the order that BaseStockPolicy(T) returns on the same
\* inventory, backlog, incoming_demand and supply_line.
C19_FallbackIsBaseStock ==
    (Called("VMI") /\ NoVisibility /\ bench.result.status = "returned") =>
        bench.result.order
            = BaseStock_calculate_order(BaseStockPolicy(bench.target_stock), bench.inventory,
                                        bench.backlog, bench.incoming_demand, bench.supply_line)

\* What the code's fallback returns: the order of BaseStockPolicy(T) for an
\* incoming demand of 0, whatever the incoming demand is.
C19_FallbackIsGap ==
    (Called("VMI") /\ NoVisibility /\ bench.result.status = "returned") =>
        bench.result.order
            = BaseStock_calculate_order(BaseStockPolicy(bench.target_stock), bench.inventory,
                                        bench.backlog, 0, bench.supply_line)

\* The fallback has been taken with an incoming demand of 1 and nothing in
\* stock or on order: it returned the target, not the target plus 1.
C19_DemandIgnored ==
    /\ Called("VMI")
    /\ NoVisibility
    /\ bench.incoming_demand = 1
    /\ bench.inventory = 0
    /\ bench.backlog = 0
    /\ bench.supply_line = 0
    /\ bench.result = [status |-> "returned", order |-> bench.target_stock]

\* Both downstream fields of the call's context are present.
FullVisibility ==
    /\ bench.context.downstream_inventory # None
    /\ bench.context.downstream_backlog # None

\* What C20 says of a call that has returned: with both fields present
\* (a 0 included) the order is max(0, (T_down - (down_inv - down_back)) +
\* (T_own - (inventory - backlog + supply_line))); with a field absent it is
\* the order of the fallback, the one returned under a context without any
\* visibility.
VisibilityDistinguished ==
    IF FullVisibility
    THEN bench.result.order
            = Max(0, (bench.policy.target_stock_downstream
                        - (bench.context.downstream_inventory[1]
                           - bench.context.downstream_backlog[1]))
                     + (bench.policy.target_stock_own - NetPositionOfCall))
    ELSE bench.result.order
            = VMI_calculate_order(bench.policy, bench.inventory, bench.backlog,
                                  bench.incoming_demand, bench.supply_line,
                                  OrderContext_default)

\* C20: VMIPolicy distinguishes absent visibility from a visibility value of
\* zero: with both downstream_inventory and downstream_backlog present
\* (including the value 0) it returns the sum of the two gaps, clamped at 0,
\* and it uses the fallback exactly when at least one of the two is absent.
C20_Distinguishes ==
    Called("VMI") =>
        /\ bench.result.status = "returned"
        /\ VisibilityDistinguished

\* What holds of the code: the same, for calls whose values are all i32
\* values and in which no i32 operation overflows.
C20_DistinguishesWithinI32 ==
    (/\ Called("VMI")
     /\ \A x \in {bench.inventory, bench.backlog, bench.supply_line} : x <= i32_MAX
     /\ \A f \in {bench.context.downstream_inventory, bench.context.downstream_backlog} :
           f # None => f[1] <= i32_MAX
     /\ ~VMI_overflows(bench.policy, bench.inventory, bench.backlog, bench.incoming_demand,
                       bench.supply_line, bench.context))
    =>
        /\ bench.result.status = "returned"
        /\ VisibilityDistinguished

\* A call with the largest u32 as the downstream inventory (-1 as an i32)
\* has returned both targets plus 1, where the formula gives 0.
C20_LargeDownstream ==
    /\ Called("VMI")
    /\ bench.context.downstream_inventory = Some(u32_MAX)
    /\ bench.context.downstream_backlog = Some(0)
    /\ bench.inventory = 0
    /\ bench.backlog = 0
    /\ bench.supply_line = 0
    /\ bench.result = [status |-> "returned", order |-> 2 * bench.target_stock + 1]

\* Calls with a present 0 and with an absent field have both returned, with
\* different orders for the same agent.
C20_ZeroIsNotAbsent ==
    /\ Called("VMI")
    /\ bench.context.downstream_inventory = Some(0)
    /\ bench.context.downstream_backlog = Some(0)
    /\ bench.result.status = "returned"
    /\ bench.result.order
          # VMI_calculate_order(bench.policy, bench.inventory, bench.backlog,
                                bench.incoming_demand, bench.supply_line,
                                OrderContext_default)

\* The simulation object as ChainSimulation::new is said to return it.
FreshSimulation ==
    /\ Len(agents) = 4
    /\ \A i \in 1..4 :
          /\ agents[i].role = AgentRole[i]
          /\ agents[i].inventory = config.initial_inventory
          /\ agents[i].backlog = 0
          /\ agents[i].supply_line = 0
    /\ <<agents[1].role, agents[2].role, agents[3].role, agents[4].role>>
          = <<"Retailer", "Wholesaler", "Distributor", "Manufacturer">>
    /\ Len(order_queues) = 3
    /\ \A k \in 1..3 : order_queues[k].buffer = Zeros(config.order_delay)
    /\ Len(shipment_queues) = 3
    /\ \A k \in 1..3 : shipment_queues[k].buffer = Zeros(config.shipment_delay)
    /\ production_delay.buffer = Zeros(config.shipment_delay)
    /\ current_week = 1
    /\ history = <<>>

\* C21: immediately after ChainSimulation::new with 4 policies there are
\* exactly 4 agents in the order Retailer, Wholesaler, Distributor,
\* Manufacturer, each with inventory = initial_inventory, backlog = 0 and
\* supply_line = 0; 3 order pipelines of order_delay zeros each, 3 shipment
\* pipelines of shipment_delay zeros each and a production pipeline of
\* zeros; current_week = 1 and the history is empty.
C21_FreshSimulation ==
    [][(pc = "new" /\ Len(bench.strategies) = 4) => FreshSimulation']_vars

\* ChainSimulation::new has just returned a simulation with stock and with
\* pipelines of the largest delays.
C21_Witness ==
    /\ pc = "run"
    /\ locals = NoLocals
    /\ FreshSimulation
    /\ config.initial_inventory = MaxQty
    /\ config.order_delay = MaxDelay
    /\ config.shipment_delay = MaxDelay
    /\ len(order_queues[1]) = MaxDelay
    /\ len(production_delay) = MaxDelay

\* Every record sits at the place of its week and its role: four records a
\* week, in the order Retailer, Wholesaler, Distributor, Manufacturer.
RecordsInRoleOrder ==
    \A j \in 1..Len(history) :
        /\ history[j].week = ((j - 1) \div 4) + 1
        /\ history[j].role = AgentRole[((j - 1) % 4) + 1]

\* The records of the week that has just been recorded hold what happened
\* in that week; the week counter has not moved yet.
RecordsOfTheWeek ==
    pc = "advance" =>
        /\ Len(history) = 4 * current_week
        /\ \A i \in 1..4 :
              LET rec == history[HistoryAt(current_week, i)]
              IN  /\ rec.week = current_week
                  /\ rec.week = locals.week
                  /\ rec.role = agents[i].role
                  /\ rec.inventory = agents[i].inventory
                  /\ rec.backlog = agents[i].backlog
                  /\ rec.order_placed = locals.order[i]
                  /\ rec.incoming_demand = locals.incoming_order[i]
                  /\ rec.shipment_sent = locals.shipped[i]
                  /\ rec.shipment_received = locals.arrival[i]

\* C22: the history record appended for (week w, agent a) has week = w, the
\* week value before it is advanced, role = a's role, inventory and backlog
\* equal to a's state at the end of week w, and order_placed,
\* incoming_demand, shipment_sent and shipment_received equal to the order a
\* decided, the order a processed, the shipment a sent and the shipment a
\* received during week w; within a week the four records appear in the
\* order Retailer, Wholesaler, Distributor, Manufacturer.
C22_HistoryRecord == RecordsInRoleOrder /\ RecordsOfTheWeek

\* The second week has been recorded, with a record whose four flows differ
\* enough to tell them apart.
C22_Witness ==
    /\ pc = "advance"
    /\ current_week = 2
    /\ Len(history) = 8
    /\ \E i \in 1..4 :
          /\ history[HistoryAt(2, i)].order_placed # history[HistoryAt(2, i)].incoming_demand
          /\ history[HistoryAt(2, i)].shipment_sent # history[HistoryAt(2, i)].shipment_received
          /\ history[HistoryAt(2, i)].backlog > 0

\* A step has run to its pushes (or none has begun yet).
EndOfStep == pc \in {"record", "advance", "run", "done"}

\* What stage i has ordered and not yet received: its orders on the way up,
\* the orders its supplier still owes, and the shipments on the way down.
OnOrder(i) ==
    IF i = Manufacturer
    THEN SeqSum(production_delay.buffer)
    ELSE SeqSum(order_queues[i].buffer) + agents[i + 1].backlog
         + SeqSum(shipment_queues[i].buffer)

\* The clamp of receive_shipment is not taken: the quantity that arrives is
\* covered by the supply line it is taken from.
ClampNotTaken ==
    pc = "receive" => \A i \in 1..4 : locals.arrival[i] <= agents[i].supply_line

\* C25: at the end of every step the supply_line of the Retailer, the
\* Wholesaler and the Distributor equals the sum of the entries of its
\* outgoing order pipeline plus the backlog of its upstream neighbour plus
\* the sum of the entries of its incoming shipment pipeline, and the
\* Manufacturer's supply_line equals the sum of the entries of the
\* production pipeline; so receive_shipment is never called with a quantity
\* larger than supply_line.
C25_SupplyLine ==
    /\ EndOfStep => \A i \in 1..4 : agents[i].supply_line = OnOrder(i)
    /\ ClampNotTaken

\* At the end of a step a stage's supply line is made of all three parts,
\* and a shipment is about to be received out of a supply line.
C25_Witness ==
    /\ pc = "advance"
    /\ \E i \in 1..3 :
          /\ SeqSum(order_queues[i].buffer) > 0
          /\ agents[i + 1].backlog > 0
          /\ SeqSum(shipment_queues[i].buffer) > 0
          /\ agents[i].supply_line >= 3
    /\ agents[Manufacturer].supply_line > 0

\* A shipment is being received out of a supply line that covers it.
C25_ArrivalReached ==
    /\ pc = "receive"
    /\ \E i \in 1..3 : locals.arrival[i] > 0 /\ agents[i].supply_line >= locals.arrival[i]
    /\ locals.arrival[Manufacturer] > 0

RECURSIVE Produced(_)
\* What the Manufacturer has received from production up to week w.
Produced(w) ==
    IF w = 0 THEN 0
    ELSE Produced(w - 1) + history[HistoryAt(w, Manufacturer)].shipment_received

RECURSIVE Delivered(_)
\* What the Retailer has shipped to the customer up to week w.
Delivered(w) ==
    IF w = 0 THEN 0
    ELSE Delivered(w - 1) + history[HistoryAt(w, Retailer)].shipment_sent

\* The goods in the chain: the four stocks and the shipments under way.
GoodsInChain ==
    agents[1].inventory + agents[2].inventory + agents[3].inventory + agents[4].inventory
    + SeqSum(shipment_queues[1].buffer) + SeqSum(shipment_queues[2].buffer)
    + SeqSum(shipment_queues[3].buffer)

\* C26: at the end of every step the four inventories plus the entries of
\* the three shipment pipelines add up to 4*initial_inventory plus what the
\* Manufacturer has received from production so far minus what the Retailer
\* has shipped to the customer so far.
C26_GoodsConserved ==
    pc \in {"advance", "run", "done"} =>
        GoodsInChain = 4 * config.initial_inventory
                       + Produced(WeeksRecorded) - Delivered(WeeksRecorded)

\* Goods have entered by production and left to the customer, and some are
\* on their way between two stages.
C26_Witness ==
    /\ pc = "advance"
    /\ Produced(WeeksRecorded) > 0
    /\ Delivered(WeeksRecorded) > 0
    /\ Produced(WeeksRecorded) # Delivered(WeeksRecorded)
    /\ \E k \in 1..3 : SeqSum(shipment_queues[k].buffer) > 0

\* An agent does not hold stock and owe orders at once.
NoStockWithBacklog(inventory, backlog) == inventory = 0 \/ backlog = 0

\* C27: after every process_order, and so at the end of every step and in
\* every history record, no agent holds inventory and backlog at the same
\* time: inventory = 0 or backlog = 0.
C27_StockOrBacklog ==
    /\ pc \in {"decide", "departures", "record", "advance", "run", "done"} =>
          \A i \in 1..4 : NoStockWithBacklog(agents[i].inventory, agents[i].backlog)
    /\ \A j \in 1..Len(history) :
          NoStockWithBacklog(history[j].inventory, history[j].backlog)

\* process_order has just run: one agent was short and ended with a backlog
\* and no stock, another kept stock and no backlog; the short one had stock
\* before.
C27_Witness ==
    /\ pc = "decide"
    /\ \E i, j \in 1..4 :
          /\ agents[i].backlog > 0
          /\ agents[i].inventory = 0
          /\ agents[i].last_shipment_sent > 0
          /\ agents[j].inventory > 0
          /\ agents[j].backlog = 0

\* Between receive_shipment and process_order an agent does hold both.
C27_BeforeProcessOrder ==
    /\ pc = "fulfill"
    /\ \E i \in 1..4 : agents[i].inventory > 0 /\ agents[i].backlog > 0

\* Five times the claimed order before rounding, with alpha = 1 and
\* beta = 1/5: 5*(demand + (target_inventory - (inventory - backlog)))
\* + (target_supply_line - supply_line), over the integers.
StermanFifths(target_inventory, target_supply_line, inventory, backlog, demand, supply_line) ==
    5 * (demand + (target_inventory - (inventory - backlog)))
    + (target_supply_line - supply_line)

\* max(0, round(x)) of x = fifths / 5; a number of fifths is never half way
\* between two integers.
RoundedOrder(fifths) == IF fifths < 0 THEN 0 ELSE (2 * fifths + 5) \div 10

\* The order the claim gives for the call at hand.
StermanClaimed ==
    RoundedOrder(StermanFifths(bench.target_stock, bench.target_stock \div 2,
                               bench.inventory, bench.backlog,
                               bench.incoming_demand, bench.supply_line))

\* C24: StermanHeuristic returns order = max(0, round(demand
\* + alpha*(target_inventory - (inventory - backlog))
\* + beta*(target_supply_line - supply_line))); built by new(t) it has
\* alpha = 1.0, beta = 0.2 and target_supply_line = floor(t/2).
C24_StermanFormula ==
    (bench.at = "returned" /\ bench.policy.kind = "Sterman") =>
        /\ bench.policy.target_inventory = bench.target_stock
        /\ bench.policy.target_supply_line = bench.target_stock \div 2
        /\ bench.result.status = "returned"
        /\ bench.result.order = StermanClaimed

\* Every term of the call at hand is an integer an f32 holds, and so is
\* their sum.
WithinF32 ==
    LET net_inv == bench.inventory - bench.backlog
        magnitude(x) == IF x < 0 THEN 0 - x ELSE x
    IN  bench.incoming_demand + magnitude(bench.target_stock - net_inv)
        + magnitude((bench.target_stock \div 2) - bench.supply_line) < 2 ^ FloatBits

\* The claimed order is the returned one as long as the f32 arithmetic is
\* exact on the integers involved.
C24_FormulaWithinF32 ==
    (bench.at = "returned" /\ bench.policy.kind = "Sterman" /\ WithinF32) =>
        /\ bench.result.status = "returned"
        /\ bench.result.order = StermanClaimed

\* A call within that range whose supply-line term decides the rounding.
C24_WithinReached ==
    /\ bench.at = "returned"
    /\ bench.policy.kind = "Sterman"
    /\ WithinF32
    /\ bench.result.order > 0
    /\ bench.supply_line > bench.target_stock \div 2
    /\ bench.result.order # bench.incoming_demand + bench.target_stock
                              - (bench.inventory - bench.backlog)

\* A demand of 2^FloatBits + 1 with both gaps zero comes back as an order of
\* 2^FloatBits.
C24_DemandRounded ==
    /\ bench.at = "returned"
    /\ bench.policy.kind = "Sterman"
    /\ bench.target_stock = 0
    /\ bench.inventory = 0
    /\ bench.backlog = 0
    /\ bench.supply_line = 0
    /\ bench.incoming_demand = 2 ^ FloatBits + 1
    /\ bench.result.status = "returned"
    /\ bench.result.order = 2 ^ FloatBits

\* Agent i is making the call it is due in this step of the model.
Calling(i, call) == pc = "receive" /\ bench.next[i] = call /\ bench'.next[i] # call

\* Nothing of any agent changes but the named fields of agent i.
OnlyFieldsOf(i, fields) ==
    /\ \A j \in 1..4 : j # i => agents'[j] = agents[j]
    /\ \A f \in (DOMAIN agents[i]) \ fields : agents'[i][f] = agents[i][f]

\* Of the policy of agent i only its internal state changes, the forecast
\* of a Smoothing policy; the other policies have none.
OnlyPolicyState(i) ==
    /\ DOMAIN agents'[i].policy = DOMAIN agents[i].policy
    /\ \A f \in (DOMAIN agents[i].policy) \ {"avg_demand"} :
          agents'[i].policy[f] = agents[i].policy[f]

\* No pipeline, and nothing else of the simulation, changes.
NoPipelineTouched ==
    UNCHANGED <<order_queues, shipment_queues, production_delay, history, current_week>>

\* C23: each agent operation changes only its own agent: receive_shipment
\* only that agent's inventory, supply_line and last_shipment_received;
\* process_order only its inventory, backlog, last_order_received and
\* last_shipment_sent; make_decision only its supply_line,
\* last_order_placed and its own policy's internal state; no other agent's
\* fields, no other agent's policy state and no pipeline are modified.
C23_Frame ==
    [][\A i \in 1..4 :
          /\ Calling(i, "receive_shipment") =>
                /\ OnlyFieldsOf(i, {"inventory", "supply_line", "last_shipment_received"})
                /\ NoPipelineTouched
          /\ Calling(i, "process_order") =>
                /\ OnlyFieldsOf(i, {"inventory", "backlog", "last_order_received",
                                    "last_shipment_sent"})
                /\ NoPipelineTouched
          /\ Calling(i, "make_decision") =>
                /\ OnlyFieldsOf(i, {"supply_line", "last_order_placed", "policy"})
                /\ OnlyPolicyState(i)
                /\ NoPipelineTouched]_vars

\* In one step an agent has made its three calls, each changing fields of
\* its own, its policy's forecast among them, while an agent with a backlog
\* and a Smoothing policy of its own has made none yet.
C23_Witness ==
    /\ pc = "receive"
    /\ \E i, j \in 1..4 :
          /\ bench.next[i] = "returned"
          /\ agents[i].policy.kind = "Smoothing"
          /\ agents[i].policy.avg_demand # week_start[i].policy.avg_demand
          /\ agents[i].last_shipment_received = locals.arrival[i]
          /\ agents[i].supply_line # week_start[i].supply_line
          /\ locals.arrival[i] > 0
          /\ locals.order[i] > 0
          /\ bench.next[j] = "receive_shipment"
          /\ agents[j].policy.kind = "Smoothing"
          /\ agents[j].backlog > 0
          /\ agents[j] = week_start[j]

\* The agents as step() leaves them phase by phase, from the agents at the
\* start of the step, what was popped for them and the orders decided:
\* after the four receive_shipment calls ...
LockStepReceived ==
    [i \in 1..4 |-> receive_shipment(week_start[i], locals.arrival[i])]

\* ... after the four process_order calls ...
LockStepFulfilled ==
    [i \in 1..4 |-> process_order(LockStepReceived[i], locals.incoming_order[i])]

\* ... and after the four make_decision calls.
LockStepDecided ==
    [i \in 1..4 |-> make_decision(LockStepFulfilled[i], locals.order[i])]

\* The calls have left the agents, the values to push, the pipelines and
\* the history records as the phase-by-phase order leaves them.
SameAsLockStep ==
    /\ pc \in {"departures", "record", "advance"} =>
          /\ agents = LockStepDecided
          /\ \A i \in 1..4 :
                /\ locals.order[i] \in decision(LockStepFulfilled[i])
                /\ locals.shipped[i] = LockStepFulfilled[i].last_shipment_sent
    /\ pc \in {"record", "advance"} =>
          /\ \A k \in 1..3 :
                /\ order_queues[k].buffer[len(order_queues[k])] = locals.order[k]
                /\ shipment_queues[k].buffer[len(shipment_queues[k])]
                      = LockStepFulfilled[k + 1].last_shipment_sent
          /\ production_delay.buffer[len(production_delay)] = locals.order[Manufacturer]
    /\ pc = "advance" =>
          \A i \in 1..4 :
              history[HistoryAt(current_week, i)]
                  = HistoryRecord(current_week, LockStepDecided[i])

\* C28: a step that runs receive, fulfill and decide agent by agent, in any
\* agent order, between the pops and the pushes produces the same
\* end-of-step agent states, pipeline contents and history records as the
\* phase-by-phase lock-step order, for policies that read only the owning
\* agent's state.
C28_AnyCallOrder == SameAsLockStep

\* Agent by agent, the Manufacturer first: the Manufacturer and the
\* Distributor have made their three calls, the Wholesaler is in the middle
\* of its own and the Retailer has not begun; goods and orders are moving.
C28_Witness ==
    /\ pc = "receive"
    /\ bench.next = <<"receive_shipment", "make_decision", "returned", "returned">>
    /\ locals.arrival[Wholesaler] > 0
    /\ locals.incoming_order[Wholesaler] > 0
    /\ locals.order[Distributor] > 0
    /\ agents[Wholesaler].policy.kind = "Smoothing"

\* A step taken call by call has come to its pushes with orders and
\* shipments to push.
C28_StepDone ==
    /\ pc = "departures"
    /\ bench.at = "calls"
    /\ current_week = MaxWeeks
    /\ \E i, j \in 1..4 : locals.order[i] > 0 /\ locals.shipped[j] > 0 /\ i # j

====
